---- MODULE Spec2Model ----
(***************************************************************************)
(* Model of backend/routers/project_socket.py: one ProjectManager with its *)
(* sandbox supervisors (_try_manage_sandboxes, _manage_sandbox), its chat  *)
(* listeners (add_chat_socket, remove_chat_socket, emit_chat,              *)
(* emit_project) and its chat turns (on_chat_message,                      *)
(* _handle_chat_message) running as cooperative asyncio tasks.             *)
(*                                                                         *)
(* Every action is the code one task runs between two suspension points.   *)
(* A broadcast (asyncio.gather of send_json calls) takes effect in the     *)
(* step that issues it.                                                    *)
(***************************************************************************)
EXTENDS Integers, Sequences, FiniteSets, TLC

\* ---------------------------------------------------------------- bounds
MaxSockets == 2
MaxTasks == 2
MaxFailures == 1
MaxLifeTasks == 1
TickMinutes == 30
MaxNow == 60
MaxAssignments == 3
MaxEmits == 3
MaxConns == 2
MaxManagers == 2
MaxPlanChunks == 1
MaxExecChunks == 2
MaxTools == 2
MaxTurns == 2
MaxResponse == 2

Sockets == 1..MaxSockets
Tasks == 1..MaxTasks

\* The chats of the project, and the chat_id of the URL a websocket
\* connects to (project_socket.py:511-512).
ChatOrder == <<"c1", "c2">>
Chats == {"c1", "c2"}
SockChat(s) == ChatOrder[((s - 1) % Len(ChatOrder)) + 1]

\* ------------------------------------------------------- program constants
\* ServiceType members; chats.py creates the frontend service first.
ServiceOrder == <<"frontend", "backend">>
ServiceTypes == {"frontend", "backend"}

\* SandboxStatus (project_socket.py:29-35); ABSENT is "no key in the dict".
SandboxStatus ==
  {"OFFLINE", "BUILDING", "BUILDING_WAITING", "READY", "WORKING", "WORKING_APPLYING"}
ABSENT == "ABSENT"

VARIABLES
  services,          \* project.services in the database: set of service types
  started,           \* project.id in project_managers
  sandbox_statuses,  \* self.sandbox_statuses, ABSENT where there is no key
  sandboxes,         \* self.sandboxes: TRUE where a (ready) handle is stored
  sup,               \* position of the supervisor task of each service
  failures,          \* number of failed _manage_sandbox attempts so far
  sockState,         \* state of each websocket: "closed", "open" (registered),
                     \* "rejected" (closed by add_chat_socket), "broken" (peer gone)
  chat_sockets,      \* self.chat_sockets[c], <<>> where there is no key
  chat_keys,         \* the keys of self.chat_sockets
  chat_agents,       \* the keys of self.chat_agents (and of self.chat_users)
  locked,            \* self.lock._locked
  waiters,           \* self.lock._waiters, in FIFO order
  nextTask,          \* number of on_chat_message tasks created so far
  pc,                \* position of each on_chat_message task
  taskChat,          \* chat_id argument of each task
  db,                \* the Message table: sequence of [chat, role, task]
  transcript,        \* db_messages loaded by each turn (line 409)
  written,           \* services whose sandbox received the turn's files
  commits,           \* number of sandbox.commit_changes calls of each turn
  delivered,         \* the error events and final assistant updates each
                     \* websocket received since it connected: <<kind, task>>
  startedReady,      \* history: the backend was READY when the turn passed its checks
  assigned,          \* history: statuses the turn assigned to the backend
  now,               \* datetime.datetime.now(), in minutes
  last_activity,     \* self.last_activity
  killed,            \* kill() has returned and the manager left project_managers
  terminated,        \* history: services whose sandbox kill() terminated
  caught,            \* the except branch a sleeping _manage_sandbox is in
  backoff,           \* the argument of the asyncio.sleep it awaits, in seconds
  retries,           \* number of retry tasks created at lines 247 and 253
  broadcast,         \* sandbox_statuses carried by the last emit_project
  sockChat,          \* chat_id of the URL each websocket connects to
  emitState,         \* position of the emit_chat call followed send by send
  emitChat,          \* its chat_id argument
  pending,           \* sockets of its snapshot whose send_json has not ended
  statusVer,         \* number of assignments made to each service's status
  ready,             \* the event loop's queue of tasks that are ready to run
  inbox,             \* the status broadcasts each websocket was sent, in order
  emitted,           \* number of emit_project calls followed task by task
  project_managers,  \* project_managers[project.id]: a manager, or NoManager
  constructed,       \* number of ProjectManagers constructed for the project
  connPc,            \* position of each connection in websocket_endpoint
  connPm,            \* the manager (pm) each connection holds
  pmSockets,         \* the connections registered in each manager's chat_sockets
  pmLast,            \* each manager's last_activity
  pmSup,             \* position of each manager's supervisor of each service
  pmSandboxes,       \* the services with a handle in each manager's sandboxes
  pmFailures,        \* number of failed _manage_sandbox attempts of the managers
  agMethod,          \* the generator that runs: Agent.step or Agent._run_phase
  filePaths,         \* step's file_paths argument is not None
  planStream,        \* the model stream of the planning call: chunks and end
  execStream,        \* the model stream of the execute call: chunks and end
  agPc,              \* position of the generator
  planPos,           \* number of plan chunks consumed
  execPos,           \* number of execute chunks consumed
  yielded,           \* the PartialChatMessages yielded to the caller, in order
  planTools,         \* the tools argument of each planning call made
  applierBound,      \* the local variable diff_applier is bound
  ingested,          \* the fragments the DiffApplier it names has ingested
  applied,           \* the ingested content of each diff_applier.apply() call
  agError,           \* the exception that left the generator
  agSandbox,         \* Agent.sandbox
  tools,             \* the tools built for the model call, in list order
  tcPc,              \* position of the _handle_tool_call under way
  tool_name,         \* tool_call.function.name
  arguments,         \* tool_call.function.arguments, the JSON text
  invoked,           \* the calls tool.func(**arguments) made: tool and arguments
  cmdOutput,         \* what the sandbox answered to the command
  commandsRun,       \* number of commands the sandbox has run
  working_page,      \* Agent.working_page
  tcResult,          \* the string _handle_tool_call returned
  tcError,           \* the exception that left _handle_tool_call
  backend_doc,       \* Agent.backend_doc: whether it is not None, and its text
  docTurn,           \* the turn that assigned backend_doc, 0 for __init__
  turn,              \* number of multi_phase_step calls on the Agent so far
  mpPc,              \* position of the multi_phase_step under way
  final_response_text, \* the whole response of phase 1 of this turn
  phase2_plan,       \* what phase2_plan interpolates for {self.backend_doc}
  sweepFailed,       \* a kill() called by the cleanup task has raised
  notUp,             \* readiness checks of each service that returned not-up
  sbGen,             \* number of handles _manage_sandbox stored for each service
  sessChats,         \* the chats that have agents (keys of chat_agents)
  agSb,              \* the handle each chat's agents hold for each service
  agPage,            \* working_page of each chat's frontend agent
  sessPc,            \* position of each chat's turn
  navigated,         \* history: the turn of the chat has invoked navigate_to
  hint               \* navigate_to of the last final update sent to the chat

vars == <<services, started, sandbox_statuses, sandboxes, sup, failures, sockState,
          chat_sockets, chat_keys, chat_agents, locked, waiters, nextTask, pc,
          taskChat, db, transcript, written, commits, delivered, startedReady,
          assigned, now, last_activity, killed, terminated, caught, backoff, retries,
          broadcast, sockChat, emitState, emitChat, pending, statusVer, ready,
          inbox, emitted, project_managers, constructed, connPc, connPm,
          pmSockets, pmLast, pmSup, pmSandboxes, pmFailures, agMethod, filePaths,
          planStream, execStream, agPc, planPos, execPos, yielded, planTools,
          applierBound, ingested, applied, agError, agSandbox, tools, tcPc,
          tool_name, arguments, invoked, cmdOutput, commandsRun, working_page,
          tcResult, tcError, backend_doc, docTurn, turn, mpPc,
          final_response_text, phase2_plan, sweepFailed, notUp, sbGen,
          sessChats, agSb, agPage, sessPc, navigated, hint>>

supVars == <<sandbox_statuses, sandboxes, sup, failures, caught, backoff,
             retries>>
sockVars == <<sockState, chat_sockets, chat_keys, chat_agents, delivered>>
lockVars == <<locked, waiters>>
turnVars == <<nextTask, pc, taskChat, db, transcript, written, commits,
              startedReady, assigned>>
timeVars == <<now, last_activity>>
emitVars == <<emitState, emitChat, pending>>
orderVars == <<statusVer, ready, inbox, emitted>>
\* The variables of the parts of the program that are followed on their
\* own, apart from the manager's listeners, supervisors and turns.
regVars == <<project_managers, constructed, connPc, connPm, pmSockets, pmLast,
             pmSup, pmSandboxes, pmFailures>>
agentInputs == <<agMethod, filePaths, planStream, execStream>>
agentVars == <<agentInputs, agPc, planPos, execPos, yielded, planTools,
               applierBound, ingested, applied, agError>>
toolVars == <<agSandbox, tools, tcPc, tool_name, arguments, invoked, cmdOutput,
              commandsRun, working_page, tcResult, tcError>>
phaseVars == <<backend_doc, docTurn, turn, mpPc, final_response_text, phase2_plan>>
sweepVars == <<sweepFailed>>
waitVars == <<notUp>>
sessVars == <<sbGen, sessChats, agSb, agPage, sessPc, navigated, hint>>
laterVars == <<sweepVars, waitVars, sessVars>>
callVars == <<toolVars, phaseVars, laterVars>>
auxVars == <<orderVars, regVars, agentVars, callVars>>
\* What no step of a websocket, a supervisor or a turn changes.
envVars == <<killed, terminated, sockChat, emitVars, auxVars>>

\* ------------------------------------------------------------- helpers
RECURSIVE SelectSeq2(_, _)
\* list(...) without the elements of `drop`
SelectSeq2(seq, drop) ==
  IF seq = <<>> THEN <<>>
  ELSE IF Head(seq) \in drop THEN SelectSeq2(Tail(seq), drop)
       ELSE <<Head(seq)>> \o SelectSeq2(Tail(seq), drop)

Range(seq) == {seq[i] : i \in 1..Len(seq)}

\* The sockets a send_json to which raises (the peer is gone).
Broken == {s \in Sockets : sockState[s] = "broken"}

\* emit_chat (489-506): every socket of the snapshot is sent the data; a
\* socket whose send raises is removed from the chat's list.
EmitChatSockets(cs, c) ==
  IF c \in chat_keys THEN [cs EXCEPT ![c] = SelectSeq2(cs[c], Broken)] ELSE cs

\* The sockets of chat c that receive a broadcast issued now.
Receivers(c) ==
  IF c \in chat_keys THEN Range(chat_sockets[c]) \ Broken ELSE {}

\* emit_project (481-487): emit_chat for every chat of self.chat_sockets.
EmitProjectSockets(cs) ==
  [c \in Chats |-> IF c \in chat_keys THEN SelectSeq2(cs[c], Broken) ELSE cs[c]]

\* emit_chat(chat_id, data) as seen by the listeners' inboxes.
EmitChatDelivered(c, ev) ==
  [s \in Sockets |-> IF s \in Receivers(c) THEN delivered[s] \cup {ev}
                     ELSE delivered[s]]

\* No status was assigned, no task is scheduled, nothing was sent.
OrderVarsInit ==
  /\ statusVer = [s \in ServiceTypes |-> 0]
  /\ ready = <<>>
  /\ inbox = [s \in Sockets |-> <<>>]
  /\ emitted = 0

\* No connection has arrived and no manager was constructed.
RegVarsInit ==
  /\ project_managers = 0
  /\ constructed = 0
  /\ connPc = [c \in 1..MaxConns |-> "none"]
  /\ connPm = [c \in 1..MaxConns |-> 0]
  /\ pmSockets = [m \in 1..MaxManagers |-> {}]
  /\ pmLast = [m \in 1..MaxManagers |-> 0]
  /\ pmSup = [m \in 1..MaxManagers |-> [s \in ServiceTypes |-> "none"]]
  /\ pmSandboxes = [m \in 1..MaxManagers |-> {}]
  /\ pmFailures = 0

\* A generator that was created and not started yet.
AgentStateInit ==
  /\ agPc = "start"
  /\ planPos = 0
  /\ execPos = 0
  /\ yielded = <<>>
  /\ planTools = <<>>
  /\ applierBound = FALSE
  /\ ingested = <<>>
  /\ applied = <<>>
  /\ agError = "none"

\* No generator of an Agent runs.
AgentVarsInit ==
  /\ agMethod = "none"
  /\ filePaths = FALSE
  /\ planStream = [chunks |-> <<>>, end |-> "end"]
  /\ execStream = [chunks |-> <<>>, end |-> "end"]
  /\ AgentStateInit

\* Agent.__init__ (283-296) as far as the tools see it: the sandbox
\* attribute holds the class LocalDockerSandbox, no tool was built and no
\* tool call was handled.
ToolVarsInit ==
  /\ agSandbox = "LocalDockerSandbox"
  /\ tools = <<>>
  /\ tcPc = "new"
  /\ tool_name = ""
  /\ arguments = ""
  /\ invoked = <<>>
  /\ cmdOutput = ""
  /\ commandsRun = 0
  /\ working_page = "None"
  /\ tcResult = "None"
  /\ tcError = "none"

\* Agent.__init__, 296: backend_doc is None; no multi_phase_step ran.
PhaseVarsInit ==
  /\ backend_doc = [set |-> FALSE, text |-> <<>>]
  /\ docTurn = 0
  /\ turn = 0
  /\ mpPc = "idle"
  /\ final_response_text = <<>>
  /\ phase2_plan = <<>>

\* No sweep has run, no readiness check was made, and no chat has agents.
LaterVarsInit ==
  /\ sweepFailed = FALSE
  /\ notUp = [s \in ServiceTypes |-> 0]
  /\ sbGen = [s \in ServiceTypes |-> 0]
  /\ sessChats = {}
  /\ agSb = [c \in Chats |-> [s \in ServiceTypes |-> 0]]
  /\ agPage = [c \in Chats |-> "None"]
  /\ sessPc = [c \in Chats |-> "idle"]
  /\ navigated = [c \in Chats |-> FALSE]
  /\ hint = [c \in Chats |-> "unsent"]

CallVarsInit == ToolVarsInit /\ PhaseVarsInit /\ LaterVarsInit

AuxInit == OrderVarsInit /\ RegVarsInit /\ AgentVarsInit /\ CallVarsInit

\* The manager and its websockets before the first connection.
CoreInit ==
  /\ services \in SUBSET ServiceTypes
  /\ started = FALSE
  /\ sandbox_statuses = [s \in ServiceTypes |-> ABSENT]
  /\ sandboxes = [s \in ServiceTypes |-> FALSE]
  /\ sup = [s \in ServiceTypes |-> "none"]
  /\ failures = 0
  /\ sockState = [s \in Sockets |-> "closed"]
  /\ chat_sockets = [c \in Chats |-> <<>>]
  /\ chat_keys = {}
  /\ chat_agents = {}
  /\ locked = FALSE
  /\ waiters = <<>>
  /\ nextTask = 0
  /\ pc = [t \in Tasks |-> "none"]
  /\ taskChat = [t \in Tasks |-> "none"]
  /\ db = <<>>
  /\ transcript = [t \in Tasks |-> <<>>]
  /\ written = [t \in Tasks |-> {}]
  /\ commits = [t \in Tasks |-> 0]
  /\ delivered = [s \in Sockets |-> {}]
  /\ startedReady = [t \in Tasks |-> FALSE]
  /\ assigned = [t \in Tasks |-> <<>>]
  /\ now = 0
  /\ last_activity = 0
  /\ killed = FALSE
  /\ terminated = {}
  /\ caught = [s \in ServiceTypes |-> "none"]
  /\ backoff = [s \in ServiceTypes |-> 0]
  /\ retries = 0
  /\ broadcast = [s \in ServiceTypes |-> ABSENT]
  /\ sockChat = [s \in Sockets |-> SockChat(s)]
  /\ emitState = "idle"
  /\ emitChat = "none"
  /\ pending = {}

Init == AuxInit /\ CoreInit

\* ------------------------------------------------- websocket_endpoint
\* Lines 537-548 and add_chat_socket (267-311): find or create (and start)
\* the manager, accept the socket, register it and broadcast the status.
AddChatSocket(s) ==
  LET c == sockChat[s] IN
  /\ sockState[s] = "closed"
  /\ ~killed
  /\ s \notin pending
  /\ last_activity' = now
  /\ started' = TRUE
  /\ IF c \notin chat_keys /\ services # ServiceTypes
     THEN \* 287-290: close the websocket, register nothing
          /\ sockState' = [sockState EXCEPT ![s] = "rejected"]
          /\ UNCHANGED <<chat_sockets, chat_keys, chat_agents, broadcast>>
     ELSE /\ sockState' = [sockState EXCEPT ![s] = "open"]
          /\ broadcast' = sandbox_statuses
          /\ chat_keys' = chat_keys \cup {c}
          /\ chat_agents' = chat_agents \cup {c}
          \* 309-311: append, then emit_project
          /\ chat_sockets' =
               [k \in Chats |->
                  IF k \in chat_keys \cup {c}
                  THEN SelectSeq2(IF k = c THEN Append(chat_sockets[k], s)
                                  ELSE chat_sockets[k], Broken)
                  ELSE chat_sockets[k]]
  /\ UNCHANGED <<services, supVars, delivered, lockVars, turnVars>>
  /\ UNCHANGED <<now, envVars>>

\* The peer goes away: from now on send_json to this socket raises.
PeerGone(s) ==
  /\ sockState[s] = "open"
  /\ sockState' = [sockState EXCEPT ![s] = "broken"]
  /\ UNCHANGED <<services, started, supVars, chat_sockets, chat_keys,
                 chat_agents, delivered, lockVars, turnVars>>
  /\ UNCHANGED <<timeVars, broadcast, envVars>>

\* remove_chat_socket (313-323), called from the endpoint's finally
\* (567-574) when receive_text raises.  With no key for the chat line 316
\* raises KeyError and nothing is changed.
RemoveChatSocket(s) ==
  LET c == sockChat[s]
      rest == SelectSeq2(chat_sockets[c], {s}) IN
  /\ sockState[s] \in {"open", "broken", "rejected"}
  /\ sockState' = [sockState EXCEPT ![s] = "closed"]
  /\ delivered' = [delivered EXCEPT ![s] = {}]
  /\ IF c \notin chat_keys
     THEN UNCHANGED <<chat_sockets, chat_keys, chat_agents>>
     ELSE IF rest = <<>>
     THEN /\ chat_sockets' = [chat_sockets EXCEPT ![c] = <<>>]
          /\ chat_keys' = chat_keys \ {c}
          /\ chat_agents' = chat_agents \ {c}
     ELSE /\ chat_sockets' = [chat_sockets EXCEPT ![c] = rest]
          /\ UNCHANGED <<chat_keys, chat_agents>>
  /\ UNCHANGED <<services, started, supVars, lockVars, turnVars>>
  /\ UNCHANGED <<timeVars, broadcast, envVars>>

\* ------------------------------------------------- sandbox supervision
\* The services _try_manage_sandboxes handles before service s.
ServicesBefore(s) ==
  {ServiceOrder[j] : j \in {i \in 1..Len(ServiceOrder) :
      /\ ServiceOrder[i] \in services
      /\ \E k \in 1..Len(ServiceOrder) : ServiceOrder[k] = s /\ i < k}}

\* _try_manage_sandboxes (190-207): one iteration: BUILDING, the status
\* broadcast, and the supervisor task of the service.
TryManageSandboxes(s) ==
  /\ started
  /\ s \in services
  /\ sup[s] = "none"
  /\ \A b \in ServicesBefore(s) : sup[b] # "none"
  /\ sandbox_statuses' = [sandbox_statuses EXCEPT ![s] = "BUILDING"]
  /\ sup' = [sup EXCEPT ![s] = "run"]
  /\ chat_sockets' = EmitProjectSockets(chat_sockets)
  /\ broadcast' = sandbox_statuses'
  /\ UNCHANGED <<services, started, sandboxes, failures, sockState, chat_keys,
                 chat_agents, delivered, lockVars, turnVars>>
  /\ UNCHANGED <<caught, backoff, retries, timeVars, envVars>>

\* The status _manage_sandbox assigns with the handle it got (224).
GotStatus == "READY"

\* _manage_sandbox, 220-224: get_sandbox_for_project returned a handle.
ManageSandboxGot(s) ==
  /\ sup[s] = "run"
  /\ sandboxes' = [sandboxes EXCEPT ![s] = TRUE]
  /\ sandbox_statuses' = [sandbox_statuses EXCEPT ![s] = GotStatus]
  /\ sup' = [sup EXCEPT ![s] = "loading"]
  /\ UNCHANGED <<services, started, failures, sockVars, lockVars, turnVars>>
  /\ UNCHANGED <<caught, backoff, retries, timeVars, broadcast, envVars>>

\* _manage_sandbox, 228-238: the eager loads returned; broadcast the status.
ManageSandboxLoaded(s) ==
  /\ sup[s] = "loading"
  /\ sup' = [sup EXCEPT ![s] = "done"]
  /\ chat_sockets' = EmitProjectSockets(chat_sockets)
  /\ broadcast' = sandbox_statuses
  /\ UNCHANGED <<services, started, sandbox_statuses, sandboxes, failures,
                 sockState, chat_keys, chat_agents, delivered, lockVars,
                 turnVars>>
  /\ UNCHANGED <<caught, backoff, retries, timeVars, envVars>>

\* The status an except branch of _manage_sandbox assigns (244, 250).
FailureStatus(notReady) == IF notReady THEN "BUILDING_WAITING" ELSE "OFFLINE"

\* The except branch that catches the exception (242, 248).
CaughtBy(notReady) ==
  IF notReady THEN "SandboxNotReadyException" ELSE "Exception"

\* The seconds _manage_sandbox sleeps before it retries (246, 252).
NotReadyBackoff == 10
ErrorBackoff == 30

\* One backoff for both except branches.
SameBackoff(notReady) == ErrorBackoff

Backoff(notReady) == IF notReady THEN NotReadyBackoff ELSE ErrorBackoff

\* _manage_sandbox, 242-252: an await of the try block raised; the status
\* is assigned and broadcast, then the task sleeps (10 s or 30 s).  The
\* not-ready signal comes from get_sandbox_for_project (220) only.
ManageSandboxFailed(s, notReady) ==
  /\ sup[s] \in {"run", "loading"}
  /\ notReady => sup[s] = "run"
  /\ failures < MaxFailures
  /\ failures' = failures + 1
  /\ sandbox_statuses' = [sandbox_statuses EXCEPT ![s] = FailureStatus(notReady)]
  /\ sup' = [sup EXCEPT ![s] = "sleep"]
  /\ caught' = [caught EXCEPT ![s] = CaughtBy(notReady)]
  /\ backoff' = [backoff EXCEPT ![s] = Backoff(notReady)]
  /\ chat_sockets' = EmitProjectSockets(chat_sockets)
  /\ broadcast' = sandbox_statuses'
  /\ UNCHANGED <<services, started, sandboxes, sockState, chat_keys,
                 chat_agents, delivered, lockVars, turnVars>>
  /\ UNCHANGED <<retries, timeVars, envVars>>

\* _manage_sandbox, 247 / 253: the sleep is over, the retry task is created.
ManageSandboxRetry(s) ==
  /\ sup[s] = "sleep"
  /\ sup' = [sup EXCEPT ![s] = "run"]
  /\ caught' = [caught EXCEPT ![s] = "none"]
  /\ backoff' = [backoff EXCEPT ![s] = 0]
  /\ retries' = retries + 1
  /\ UNCHANGED <<services, started, sandbox_statuses, sandboxes, failures,
                 sockVars, lockVars, turnVars>>
  /\ UNCHANGED <<timeVars, broadcast, envVars>>

\* ------------------------------------------------------- the turn lock
\* The positions of an on_chat_message task that is inside
\* _handle_chat_message (between acquiring and releasing the lock).
InFlightPcs ==
  {"nr_status", "ret", "working", "user_saved", "writing", "asst_saved",
   "final", "ready_set"}

InFlight(t) == pc[t] \in InFlightPcs

\* A turn lock that is taken per chat instead of per manager.
ChatLockFree(c) == \A t \in Tasks : InFlight(t) => taskChat[t] # c

\* No lock at all around _handle_chat_message.
NoTurnLock(c) == TRUE

\* async with self.lock (328) for a message of chat c: self.lock is the one
\* lock of the ProjectManager (125), whatever the chat; asyncio.Lock.acquire
\* does not wait when the lock is free and nobody queues for it.
TurnLockFree(c) == ~locked /\ waiters = <<>>

\* What leaving "async with self.lock" by a return does to the lock.
ReleasedLock == FALSE

\* A lock that stays taken when the block is left by an exception.
LockKeptAfterRaise == TRUE

\* What leaving "async with self.lock" by an exception does to the lock
\* (__aexit__ releases it, 328-329).
LockAfterRaise == FALSE

\* Lines 551-556 and 325-327: a message is received on socket s and its
\* task t is created and started.
Arrive(s, t) ==
  /\ sockState[s] \in {"open", "rejected"}
  /\ nextTask < MaxTasks
  /\ t = nextTask + 1
  /\ nextTask' = t
  /\ taskChat' = [taskChat EXCEPT ![t] = sockChat[s]]
  /\ last_activity' = now

\* Line 328 with the lock taken or wanted by an earlier task: queue.
OnChatMessageWait(s, t) ==
  /\ Arrive(s, t)
  /\ ~TurnLockFree(sockChat[s])
  /\ waiters' = Append(waiters, t)
  /\ pc' = [pc EXCEPT ![t] = "waiting"]
  /\ UNCHANGED <<services, started, supVars, sockVars, locked, db, transcript,
                 written, commits, startedReady, assigned>>
  /\ UNCHANGED <<now, broadcast, envVars>>

\* Line 328: task t gets the lock, either at once when its message
\* arrives, or as the first waiter of the released lock.  The task then
\* runs _handle_chat_message up to its first suspension.
Acquire(t) ==
  \/ /\ \E s \in Sockets : Arrive(s, t) /\ TurnLockFree(sockChat[s])
     /\ UNCHANGED waiters
  \/ /\ pc[t] = "waiting"
     /\ ~locked
     /\ waiters # <<>> /\ Head(waiters) = t
     /\ waiters' = Tail(waiters)
     /\ UNCHANGED <<nextTask, taskChat, last_activity>>

\* ------------------------------------------------- _handle_chat_message
\* emit_chat(chat_id, {"error": ...}): the data is a dict, so
\* data.model_dump() raises inside _try_send's try block for every socket
\* of the snapshot (499-504): nothing is sent and each socket is removed.
EmitErrorSockets(cs, c) ==
  IF c \in chat_keys THEN [cs EXCEPT ![c] = <<>>] ELSE cs

\* The sockets that receive the error event of emit_chat(chat_id, dict).
ErrorReceivers(c) == {}

EmitErrorDelivered(c, ev) ==
  [s \in Sockets |-> IF s \in ErrorReceivers(c) THEN delivered[s] \cup {ev}
                     ELSE delivered[s]]

\* Line 347: the guard of the early return for missing services.
NoServiceFound == "backend" \notin services /\ "frontend" \notin services

\* 337-350: neither service exists: error event, then return.
HandleNoService(t) ==
  /\ Acquire(t)
  /\ NoServiceFound
  /\ locked' = TRUE
  /\ chat_sockets' = EmitErrorSockets(chat_sockets, taskChat'[t])
  /\ delivered' = EmitErrorDelivered(taskChat'[t], <<"error", t>>)
  /\ pc' = [pc EXCEPT ![t] = "ret"]
  /\ UNCHANGED <<services, started, supVars, sockState, chat_keys,
                 chat_agents, db, transcript, written, commits, startedReady,
                 assigned>>
  /\ UNCHANGED <<now, broadcast, envVars>>

\* 354-355: backend_service.id / frontend_service.id with one of them None
\* raises AttributeError; the exception leaves the async with block.
HandleServiceMissing(t) ==
  /\ Acquire(t)
  /\ ~NoServiceFound
  /\ services # ServiceTypes
  /\ pc' = [pc EXCEPT ![t] = "raised"]
  /\ locked' = LockAfterRaise
  /\ UNCHANGED <<services, started, supVars, sockVars, db, transcript, written,
                 commits, startedReady, assigned>>
  /\ UNCHANGED <<now, broadcast, envVars>>

\* The service whose sandbox check fails first (359, 366), or "none".
NotRunning ==
  IF ~sandboxes["backend"] THEN "backend"
  ELSE IF ~sandboxes["frontend"] THEN "frontend"
  ELSE "none"

\* The sandbox checks made before the lock is taken: the error path of a
\* message that cannot proceed then runs without the lock.
HandleNotRunningBeforeLock(t) ==
  /\ \E s \in Sockets : Arrive(s, t)
  /\ services = ServiceTypes
  /\ NotRunning # "none"
  /\ sandbox_statuses' = [sandbox_statuses EXCEPT ![NotRunning] = "OFFLINE"]
  /\ assigned' = [assigned EXCEPT ![t] =
                    IF NotRunning = "backend" THEN Append(@, "OFFLINE") ELSE @]
  /\ chat_sockets' = EmitProjectSockets(chat_sockets)
  /\ broadcast' = sandbox_statuses'
  /\ pc' = [pc EXCEPT ![t] = "nr_status"]
  /\ UNCHANGED <<services, started, sandboxes, sup, failures, sockState,
                 chat_keys, chat_agents, delivered, lockVars, db, transcript,
                 written, commits, startedReady>>
  /\ UNCHANGED <<caught, backoff, retries, now, envVars>>

\* 359-362 / 366-369: a sandbox is missing: OFFLINE, status broadcast.
HandleNotRunning(t) ==
  /\ Acquire(t)
  /\ services = ServiceTypes
  /\ NotRunning # "none"
  /\ locked' = TRUE
  /\ sandbox_statuses' = [sandbox_statuses EXCEPT ![NotRunning] = "OFFLINE"]
  /\ assigned' = [assigned EXCEPT ![t] =
                    IF NotRunning = "backend" THEN Append(@, "OFFLINE") ELSE @]
  /\ chat_sockets' = EmitProjectSockets(chat_sockets)
  /\ broadcast' = sandbox_statuses'
  /\ pc' = [pc EXCEPT ![t] = "nr_status"]
  /\ UNCHANGED <<services, started, sandboxes, sup, failures, sockState,
                 chat_keys, chat_agents, delivered, db, transcript, written,
                 commits, startedReady>>
  /\ UNCHANGED <<caught, backoff, retries, now, envVars>>

\* 363-364 / 370-371: the error event, then return.
HandleNotRunningError(t) ==
  /\ pc[t] = "nr_status"
  /\ chat_sockets' = EmitErrorSockets(chat_sockets, taskChat[t])
  /\ delivered' = EmitErrorDelivered(taskChat[t], <<"error", t>>)
  /\ pc' = [pc EXCEPT ![t] = "ret"]
  /\ UNCHANGED <<services, started, supVars, sockState, chat_keys,
                 chat_agents, lockVars, nextTask, taskChat, db, transcript,
                 written, commits, startedReady, assigned>>
  /\ UNCHANGED <<timeVars, broadcast, envVars>>

\* The return of _handle_chat_message leaves the async with block.
HandleReturn(t) ==
  /\ pc[t] \in {"ret", "ready_set"}
  /\ pc' = [pc EXCEPT ![t] = IF pc[t] = "ret" THEN "returned" ELSE "done"]
  /\ locked' = ReleasedLock
  /\ UNCHANGED <<services, started, supVars, sockVars, waiters, nextTask,
                 taskChat, db, transcript, written, commits, startedReady,
                 assigned>>
  /\ UNCHANGED <<timeVars, broadcast, envVars>>

\* 378-384: both sandboxes run: both services WORKING, status broadcast.
HandleWorking(t) ==
  /\ Acquire(t)
  /\ services = ServiceTypes
  /\ NotRunning = "none"
  /\ locked' = TRUE
  /\ startedReady' = [startedReady EXCEPT ![t] = sandbox_statuses["backend"] = "READY"]
  /\ sandbox_statuses' = [s \in ServiceTypes |-> "WORKING"]
  /\ assigned' = [assigned EXCEPT ![t] = Append(@, "WORKING")]
  /\ chat_sockets' = EmitProjectSockets(chat_sockets)
  /\ broadcast' = sandbox_statuses'
  /\ pc' = [pc EXCEPT ![t] = "working"]
  /\ UNCHANGED <<services, started, sandboxes, sup, failures, sockState,
                 chat_keys, chat_agents, delivered, db, transcript, written,
                 commits>>
  /\ UNCHANGED <<caught, backoff, retries, now, envVars>>

\* _message_to_db_message + db.add/commit (70-76, 387-391, 445-451).
DbMessage(c, role, t) == [chat |-> c, role |-> role, task |-> t]

\* 386-401: persist the user message and broadcast it to the chat.
SaveUserMessage(t) ==
  /\ pc[t] = "working"
  /\ db' = Append(db, DbMessage(taskChat[t], "user", t))
  /\ chat_sockets' = EmitChatSockets(chat_sockets, taskChat[t])
  /\ pc' = [pc EXCEPT ![t] = "user_saved"]
  /\ UNCHANGED <<services, started, supVars, sockState, chat_keys,
                 chat_agents, delivered, lockVars, nextTask, taskChat, transcript, written,
                 commits, startedReady, assigned>>
  /\ UNCHANGED <<timeVars, broadcast, envVars>>

\* A transcript query that leaves out the assistant messages.
ChatTranscriptUserOnly(c) ==
  SelectSeq(db, LAMBDA m : m.chat = c /\ m.role = "user")

\* 409-414: the messages of the chat, in creation order.
ChatTranscript(c) == SelectSeq(db, LAMBDA m : m.chat = c)

\* 405-406: self.chat_agents[chat_id] raises KeyError when the chat's
\* session was discarded.
RunAgentNoSession(t) ==
  /\ pc[t] = "user_saved"
  /\ taskChat[t] \notin chat_agents
  /\ pc' = [pc EXCEPT ![t] = "raised"]
  /\ locked' = LockAfterRaise
  /\ UNCHANGED <<services, started, supVars, sockVars, waiters, nextTask,
                 taskChat, db, transcript, written, commits, startedReady,
                 assigned>>
  /\ UNCHANGED <<timeVars, broadcast, envVars>>

\* 405-434: load the transcript, run agent_orchestrator (synchronous); a
\* None result makes total_content[0] raise TypeError (428), otherwise the
\* sandbox writes are awaited.
RunAgent(t, gotResult) ==
  /\ pc[t] = "user_saved"
  /\ taskChat[t] \in chat_agents
  /\ transcript' = [transcript EXCEPT ![t] = ChatTranscript(taskChat[t])]
  /\ IF gotResult
     THEN /\ pc' = [pc EXCEPT ![t] = "writing"]
          /\ UNCHANGED locked
     ELSE /\ pc' = [pc EXCEPT ![t] = "raised"]
          /\ locked' = LockAfterRaise
  /\ UNCHANGED <<services, started, supVars, sockVars, waiters, nextTask,
                 taskChat, db, written, commits, startedReady, assigned>>
  /\ UNCHANGED <<timeVars, broadcast, envVars>>

\* The sandbox calls a turn makes once the agent output has ended and
\* before the statuses return to READY (434-456): two writes and two
\* listings; sandbox.commit_changes is not among them.
CommitsOfTurn == 0

\* 434-455: write_files_from_llm_output for the backend, then for the
\* frontend; `wrote` are the services whose write returned.  After both
\* the assistant message is persisted and the file listings are awaited.
WriteFiles(t, wrote) ==
  /\ pc[t] = "writing"
  /\ written' = [written EXCEPT ![t] = wrote]
  /\ IF wrote = ServiceTypes
     THEN /\ db' = Append(db, DbMessage(taskChat[t], "assistant", t))
          /\ commits' = [commits EXCEPT ![t] = @ + CommitsOfTurn]
          /\ pc' = [pc EXCEPT ![t] = "asst_saved"]
          /\ UNCHANGED locked
     ELSE /\ pc' = [pc EXCEPT ![t] = "raised"]
          /\ locked' = LockAfterRaise
          /\ UNCHANGED <<db, commits>>
  /\ UNCHANGED <<services, started, supVars, sockVars, waiters, nextTask,
                 taskChat, transcript, startedReady, assigned>>
  /\ UNCHANGED <<timeVars, broadcast, envVars>>

\* 455-471: the listings returned; status broadcast, then the assistant
\* message is broadcast to the chat.
FinalBroadcast(t) ==
  /\ pc[t] = "asst_saved"
  /\ chat_sockets' = EmitProjectSockets(chat_sockets)
  /\ broadcast' = sandbox_statuses
  /\ delivered' = EmitChatDelivered(taskChat[t], <<"assistant", t>>)
  /\ pc' = [pc EXCEPT ![t] = "final"]
  /\ UNCHANGED <<services, started, supVars, sockState, chat_keys,
                 chat_agents, lockVars, nextTask, taskChat, db, transcript,
                 written, commits, startedReady, assigned>>
  /\ UNCHANGED <<timeVars, envVars>>

\* The statuses the turn assigns to a service once the agent output has
\* ended (473-476): READY, with no status in between.
EndOfTurnStatuses == <<"READY">>

\* 473-477: both services READY, status broadcast.
SetReady(t) ==
  /\ pc[t] = "final"
  /\ sandbox_statuses' =
       [s \in ServiceTypes |-> EndOfTurnStatuses[Len(EndOfTurnStatuses)]]
  /\ assigned' = [assigned EXCEPT ![t] = @ \o EndOfTurnStatuses]
  /\ chat_sockets' = EmitProjectSockets(chat_sockets)
  /\ broadcast' = sandbox_statuses'
  /\ pc' = [pc EXCEPT ![t] = "ready_set"]
  /\ UNCHANGED <<services, started, sandboxes, sup, failures, sockState,
                 chat_keys, chat_agents, delivered, lockVars, nextTask,
                 taskChat, db, transcript, written, commits, startedReady>>
  /\ UNCHANGED <<caught, backoff, retries, timeVars, envVars>>

\* An awaited listing or model call of the turn raises (455, 456, 468):
\* the exception leaves the async with block.
TurnAwaitRaises(t) ==
  /\ pc[t] = "asst_saved"
  /\ pc' = [pc EXCEPT ![t] = "raised"]
  /\ locked' = LockAfterRaise
  /\ UNCHANGED <<services, started, supVars, sockVars, waiters, nextTask,
                 taskChat, db, transcript, written, commits, startedReady,
                 assigned>>
  /\ UNCHANGED <<timeVars, broadcast, envVars>>

\* ------------------------------------------- a broadcast, send by send
\* emit_chat(chat_id, data) with data a pydantic model, called by a turn,
\* a supervisor or add_chat_socket, followed through its suspensions:
\* lines 493-496 take the snapshot, and one _try_send per socket of the
\* snapshot is started by asyncio.gather.
EmitChatStart(c) ==
  /\ emitState # "sending"
  /\ emitChat' = c
  /\ pending' = IF c \in chat_keys THEN Range(chat_sockets[c]) ELSE {}
  /\ emitState' = IF pending' = {} THEN "returned" ELSE "sending"
  /\ delivered' = [s \in Sockets |-> delivered[s] \ {<<"update", 0>>}]
  /\ UNCHANGED <<services, started, supVars, sockState, chat_sockets,
                 chat_keys, chat_agents, lockVars, turnVars, timeVars,
                 broadcast, killed, terminated, sockChat, auxVars>>

\* The state of emit_chat after one more _try_send has ended.
AfterSend(s, raised) ==
  IF raised \/ emitState = "raised" THEN "raised"
  ELSE IF pending = {s} THEN "returned"
  ELSE "sending"

\* _try_send, line 499: send_json to a connected websocket returns.
TrySendReturns(s) ==
  /\ s \in pending
  /\ sockState[s] = "open"
  /\ pending' = pending \ {s}
  /\ delivered' = [delivered EXCEPT ![s] = @ \cup {<<"update", 0>>}]
  /\ emitState' = AfterSend(s, FALSE)
  /\ UNCHANGED <<services, started, supVars, sockState, chat_sockets,
                 chat_keys, chat_agents, lockVars, turnVars, timeVars,
                 broadcast, killed, terminated, sockChat, emitChat, auxVars>>

\* _try_send, lines 500-504: send_json raises (the peer is gone or the
\* websocket was closed); the except branch runs
\* self.chat_sockets[chat_id].remove(sock): a ValueError is passed over, a
\* KeyError (no key for the chat any more) leaves _try_send, asyncio.gather
\* and emit_chat.
TrySendRaises(s) ==
  /\ s \in pending
  /\ sockState[s] # "open"
  /\ pending' = pending \ {s}
  /\ IF emitChat \in chat_keys
     THEN /\ chat_sockets' =
               [chat_sockets EXCEPT ![emitChat] = SelectSeq2(@, {s})]
          /\ emitState' = AfterSend(s, FALSE)
     ELSE /\ emitState' = AfterSend(s, TRUE)
          /\ UNCHANGED chat_sockets
  /\ UNCHANGED <<services, started, supVars, sockState, chat_keys,
                 chat_agents, delivered, lockVars, turnVars, timeVars,
                 broadcast, killed, terminated, sockChat, emitChat, auxVars>>

\* ------------------------------------------- inactivity and reclamation
\* An is_inactive that looks at the elapsed time only.
is_inactive_by_time(timeout_minutes) == now - last_activity > timeout_minutes

\* is_inactive (141-149): no key in self.chat_sockets and more than
\* timeout_minutes since self.last_activity.
is_inactive(timeout_minutes) ==
  IF Cardinality(chat_keys) = 0
  THEN now - last_activity > timeout_minutes
  ELSE FALSE

\* The default of is_inactive's timeout_minutes, used by the cleanup task.
TimeoutMinutes == 30

\* Time passes.
Tick ==
  /\ now + TickMinutes <= MaxNow
  /\ now' = now + TickMinutes
  /\ UNCHANGED <<services, started, supVars, sockVars, lockVars, turnVars,
                 last_activity, broadcast, envVars>>

\* The sandboxes kill() iterates over: self.sandboxes.items() (156).
OwnedSandboxes == {s \in ServiceTypes : sandboxes[s]}

\* A kill() that clears the maps but leaves the containers running.
KillTerminatesNothing == {}

\* The sandboxes kill() terminates (161-162).
KillTerminates == OwnedSandboxes

\* The websockets kill() closes (166-174).
KillCloses == UNION {Range(chat_sockets[c]) : c \in chat_keys}

\* cleanup_inactive_project_managers (tasks.py 38-46) for this manager:
\* when it is inactive, kill() (151-181) and del project_managers[id].
\* With no key in chat_sockets no await of kill() suspends: every owned
\* sandbox gets BUILDING, a status broadcast and terminate(), then the
\* websockets are closed and the five maps are cleared.
CleanupInactive ==
  /\ started
  /\ is_inactive(TimeoutMinutes)
  /\ terminated' = terminated \cup KillTerminates
  /\ broadcast' = [s \in ServiceTypes |->
                     IF OwnedSandboxes = {} THEN broadcast[s]
                     ELSE IF s \in OwnedSandboxes THEN "BUILDING"
                     ELSE sandbox_statuses[s]]
  /\ sockState' = [s \in Sockets |->
                     IF s \in KillCloses THEN "rejected" ELSE sockState[s]]
  /\ chat_sockets' = [c \in Chats |-> <<>>]
  /\ chat_keys' = {}
  /\ chat_agents' = {}
  /\ sandboxes' = [s \in ServiceTypes |-> FALSE]
  /\ sandbox_statuses' = [s \in ServiceTypes |-> ABSENT]
  /\ killed' = TRUE
  /\ started' = FALSE
  /\ UNCHANGED <<services, sup, failures, caught, backoff, retries, delivered,
                 lockVars,
                 turnVars, timeVars, sockChat, emitVars, auxVars>>

\* ------------------------------------------------------- specification
Next ==
  \/ \E s \in Sockets : AddChatSocket(s)
  \/ \E s \in Sockets : PeerGone(s)
  \/ \E s \in Sockets : RemoveChatSocket(s)
  \/ \E s \in ServiceTypes : TryManageSandboxes(s)
  \/ \E s \in ServiceTypes : ManageSandboxGot(s)
  \/ \E s \in ServiceTypes : ManageSandboxLoaded(s)
  \/ \E s \in ServiceTypes, notReady \in BOOLEAN : ManageSandboxFailed(s, notReady)
  \/ \E s \in ServiceTypes : ManageSandboxRetry(s)
  \/ \E s \in Sockets, t \in Tasks : OnChatMessageWait(s, t)
  \/ \E t \in Tasks : HandleNoService(t)
  \/ \E t \in Tasks : HandleServiceMissing(t)
  \/ \E t \in Tasks : HandleNotRunning(t)
  \/ \E t \in Tasks : HandleNotRunningError(t)
  \/ \E t \in Tasks : HandleReturn(t)
  \/ \E t \in Tasks : HandleWorking(t)
  \/ \E t \in Tasks : SaveUserMessage(t)
  \/ \E t \in Tasks : RunAgentNoSession(t)
  \/ \E t \in Tasks, gotResult \in BOOLEAN : RunAgent(t, gotResult)
  \/ \E t \in Tasks, wrote \in {{}, {"backend"}, ServiceTypes} : WriteFiles(t, wrote)
  \/ \E t \in Tasks : FinalBroadcast(t)
  \/ \E t \in Tasks : SetReady(t)
  \/ \E t \in Tasks : TurnAwaitRaises(t)

Spec == Init /\ [][Next]_vars

TypeOK ==
  /\ services \subseteq ServiceTypes
  /\ \A s \in ServiceTypes : sandbox_statuses[s] \in SandboxStatus \cup {ABSENT}
  /\ \A t \in Tasks : InFlight(t) => locked
  /\ chat_agents = chat_keys

\* The steps of the on_chat_message task t.
TurnStep(t) ==
  \/ HandleNoService(t) \/ HandleServiceMissing(t) \/ HandleNotRunning(t)
  \/ HandleNotRunningError(t) \/ HandleReturn(t) \/ HandleWorking(t)
  \/ SaveUserMessage(t) \/ RunAgentNoSession(t)
  \/ (\E gotResult \in BOOLEAN : RunAgent(t, gotResult))
  \/ (\E wrote \in {{}, {"backend"}, ServiceTypes} : WriteFiles(t, wrote))
  \/ FinalBroadcast(t) \/ SetReady(t) \/ TurnAwaitRaises(t)

\* The steps of the on_chat_message tasks.  The event loop runs every
\* task that is ready, and every awaited call of a turn returns or raises.
TaskStep == \E t \in Tasks : TurnStep(t)

\* The listeners, the supervisors and the turns under fair scheduling of
\* the turns.  A turn reads self.sandboxes only, which a failed attempt of
\* _manage_sandbox leaves alone, so the failing attempts and their
\* retries are left out here: they delay the first store of a sandbox,
\* which no fairness condition forces anyway.
FairNext ==
  \/ \E s \in Sockets : AddChatSocket(s)
  \/ \E s \in Sockets : PeerGone(s)
  \/ \E s \in Sockets : RemoveChatSocket(s)
  \/ \E s \in ServiceTypes : TryManageSandboxes(s)
  \/ \E s \in ServiceTypes : ManageSandboxGot(s)
  \/ \E s \in ServiceTypes : ManageSandboxLoaded(s)
  \/ \E s \in Sockets, t \in Tasks : OnChatMessageWait(s, t)
  \/ TaskStep

FairSpec == Init /\ [][FairNext]_vars /\ WF_vars(TaskStep)

\* The manager over its whole life: its listeners, its supervisors, the
\* turns of its first MaxLifeTasks messages, the clock, and the cleanup
\* task that reclaims the manager once it is inactive.
LifeNext ==
  \/ \E s \in Sockets : AddChatSocket(s)
  \/ \E s \in Sockets : PeerGone(s)
  \/ \E s \in Sockets : RemoveChatSocket(s)
  \/ \E s \in ServiceTypes : TryManageSandboxes(s)
  \/ \E s \in ServiceTypes : ManageSandboxGot(s)
  \/ \E s \in ServiceTypes : ManageSandboxLoaded(s)
  \/ \E s \in ServiceTypes, notReady \in BOOLEAN : ManageSandboxFailed(s, notReady)
  \/ \E s \in ServiceTypes : ManageSandboxRetry(s)
  \/ \E t \in 1..MaxLifeTasks : TurnStep(t)
  \/ Tick
  \/ CleanupInactive

LifeSpec == Init /\ [][LifeNext]_vars

\* The listeners of the project and one broadcast to a chat followed send
\* by send; the websockets connect to any of the chats.
EmitInit ==
  /\ AuxInit
  /\ services \in SUBSET ServiceTypes
  /\ started = FALSE
  /\ sandbox_statuses = [s \in ServiceTypes |-> ABSENT]
  /\ sandboxes = [s \in ServiceTypes |-> FALSE]
  /\ sup = [s \in ServiceTypes |-> "none"]
  /\ failures = 0
  /\ sockState = [s \in Sockets |-> "closed"]
  /\ chat_sockets = [c \in Chats |-> <<>>]
  /\ chat_keys = {}
  /\ chat_agents = {}
  /\ locked = FALSE
  /\ waiters = <<>>
  /\ nextTask = 0
  /\ pc = [t \in Tasks |-> "none"]
  /\ taskChat = [t \in Tasks |-> "none"]
  /\ db = <<>>
  /\ transcript = [t \in Tasks |-> <<>>]
  /\ written = [t \in Tasks |-> {}]
  /\ commits = [t \in Tasks |-> 0]
  /\ delivered = [s \in Sockets |-> {}]
  /\ startedReady = [t \in Tasks |-> FALSE]
  /\ assigned = [t \in Tasks |-> <<>>]
  /\ now = 0
  /\ last_activity = 0
  /\ killed = FALSE
  /\ terminated = {}
  /\ caught = [s \in ServiceTypes |-> "none"]
  /\ backoff = [s \in ServiceTypes |-> 0]
  /\ retries = 0
  /\ broadcast = [s \in ServiceTypes |-> ABSENT]
  /\ sockChat \in [Sockets -> Chats]
  /\ emitState = "idle"
  /\ emitChat = "none"
  /\ pending = {}

EmitNext ==
  \/ \E s \in Sockets : AddChatSocket(s)
  \/ \E s \in Sockets : PeerGone(s)
  \/ \E s \in Sockets : RemoveChatSocket(s)
  \/ \E c \in Chats : EmitChatStart(c)
  \/ \E s \in Sockets : TrySendReturns(s)
  \/ \E s \in Sockets : TrySendRaises(s)

EmitSpec == EmitInit /\ [][EmitNext]_vars

\* The positions of a task whose turn is over.
FinishedPcs == {"returned", "done", "raised"}

\* ------------------------------------ status broadcasts, task by task
\* Every variable of the manager's listeners, supervisors, turns and clock.
coreVars == <<services, started, supVars, sockVars, lockVars, turnVars,
              timeVars, broadcast, killed, terminated, sockChat, emitVars>>

\* A gather that runs the tasks it creates before the ones already queued.
ScheduleFirst(q, tasks) == tasks \o q

\* asyncio.gather(*coroutines) (486, 506) wraps every coroutine in a task;
\* a new task is appended to the event loop's ready queue.
Schedule(q, tasks) == q \o tasks

\* The keys of self.chat_sockets a broadcast iterates over (486).
ChatKeySeq == SelectSeq(ChatOrder, LAMBDA c : c \in chat_keys)

\* emit_project(data) (481-487): one emit_chat(cid, data) per chat key.
EmitProjectTasks(keys, data) ==
  [i \in 1..Len(keys) |-> [kind |-> "emit_chat", chat |-> keys[i], sock |-> 0,
                           data |-> data]]

\* emit_chat (495-506): one _try_send per socket of the snapshot.
TrySendTasks(socks, c, data) ==
  [i \in 1..Len(socks) |-> [kind |-> "try_send", chat |-> c, sock |-> socks[i],
                            data |-> data]]

\* The number of status assignments and of emit_project calls so far.
Assignments == statusVer["frontend"] + statusVer["backend"]

\* A task assigns a status of service s and at once calls
\* emit_project(await self._get_project_status()) (203-205, 244-245,
\* 250-251, 361-362, 368-369): _get_project_status (255-265) copies
\* sandbox_statuses without suspending, and emit_project suspends in gather.
AssignAndEmit(s) ==
  /\ Assignments < MaxAssignments
  /\ emitted < MaxEmits
  /\ statusVer' = [statusVer EXCEPT ![s] = @ + 1]
  /\ ready' = Schedule(ready, EmitProjectTasks(ChatKeySeq, statusVer'))
  /\ emitted' = emitted + 1
  /\ UNCHANGED <<coreVars, inbox, regVars, agentVars, callVars>>

\* Line 224: _manage_sandbox assigns READY and suspends in the eager loads
\* (230-236) before it broadcasts.
AssignOnly(s) ==
  /\ Assignments < MaxAssignments
  /\ statusVer' = [statusVer EXCEPT ![s] = @ + 1]
  /\ UNCHANGED <<coreVars, ready, inbox, emitted, regVars, agentVars, callVars>>

\* Lines 238, 461: a broadcast of the statuses as they are now.
EmitOnly ==
  /\ emitted < MaxEmits
  /\ ready' = Schedule(ready, EmitProjectTasks(ChatKeySeq, statusVer))
  /\ emitted' = emitted + 1
  /\ UNCHANGED <<coreVars, statusVer, inbox, regVars, agentVars, callVars>>

\* The tasks in the ready queue that will send to websocket s.
QueuedFor(s) == {i \in 1..Len(ready) : ready[i].sock = s}

\* add_chat_socket (267-311) for a project with both services: register
\* the websocket, then broadcast the statuses.
AddChatSocketEmit(s) ==
  LET c == sockChat[s]
      keys == IF c \in chat_keys THEN ChatKeySeq
              ELSE SelectSeq(ChatOrder, LAMBDA k : k \in chat_keys \cup {c}) IN
  /\ services = ServiceTypes
  /\ sockState[s] = "closed"
  /\ QueuedFor(s) = {}
  /\ emitted < MaxEmits
  /\ sockState' = [sockState EXCEPT ![s] = "open"]
  /\ chat_keys' = chat_keys \cup {c}
  /\ chat_agents' = chat_agents \cup {c}
  /\ chat_sockets' = [chat_sockets EXCEPT ![c] = Append(@, s)]
  /\ started' = TRUE
  /\ last_activity' = now
  /\ inbox' = [inbox EXCEPT ![s] = <<>>]
  /\ ready' = Schedule(ready, EmitProjectTasks(keys, statusVer))
  /\ emitted' = emitted + 1
  /\ UNCHANGED <<services, supVars, delivered, lockVars, turnVars, now,
                 broadcast, killed, terminated, sockChat, emitVars, statusVer,
                 regVars, agentVars, callVars>>

\* The event loop runs the first task of its queue: an emit_chat up to
\* its gather (493-506) ...
RunEmitChat ==
  /\ ready # <<>>
  /\ Head(ready).kind = "emit_chat"
  /\ LET e == Head(ready)
         socks == IF e.chat \in chat_keys THEN chat_sockets[e.chat] ELSE <<>> IN
     ready' = Schedule(Tail(ready), TrySendTasks(socks, e.chat, e.data))
  /\ UNCHANGED <<coreVars, statusVer, inbox, emitted, regVars, agentVars, callVars>>

\* ... or a _try_send (497-504): send_json hands the data to the
\* connection, or raises and the websocket leaves the chat's list.
RunTrySend ==
  /\ ready # <<>>
  /\ Head(ready).kind = "try_send"
  /\ LET e == Head(ready) IN
     IF sockState[e.sock] = "open"
     THEN /\ inbox' = [inbox EXCEPT ![e.sock] = Append(@, e.data)]
          /\ UNCHANGED chat_sockets
     ELSE /\ chat_sockets' =
               IF e.chat \in chat_keys
               THEN [chat_sockets EXCEPT ![e.chat] = SelectSeq2(@, {e.sock})]
               ELSE chat_sockets
          /\ UNCHANGED inbox
  /\ ready' = Tail(ready)
  /\ UNCHANGED <<services, started, supVars, sockState, chat_keys, chat_agents,
                 delivered, lockVars, turnVars, timeVars, broadcast, killed,
                 terminated, sockChat, emitVars, statusVer, emitted,
                 regVars, agentVars, callVars>>

\* The websockets of a project with both services, and the tasks of its
\* manager that assign and broadcast statuses, in any interleaving.
OrderInit == Init /\ services = ServiceTypes

OrderNext ==
  \/ \E s \in Sockets : AddChatSocketEmit(s)
  \/ \E s \in Sockets : PeerGone(s)
  \/ \E s \in Sockets : RemoveChatSocket(s)
  \/ \E s \in ServiceTypes : AssignAndEmit(s)
  \/ \E s \in ServiceTypes : AssignOnly(s)
  \/ EmitOnly
  \/ RunEmitChat
  \/ RunTrySend

OrderSpec == OrderInit /\ [][OrderNext]_vars

\* ------------------------------------------- the registry of managers
\* The websocket connections to chats of the project and the
\* ProjectManagers constructed for it over time.
Conns == 1..MaxConns
Managers == 1..MaxManagers

\* project_managers has no entry for the project.
NoManager == 0

\* A lookup that never finds the project in project_managers.
NoManagerFound == NoManager

\* Line 538: the entry of project_managers for the project, if any.
FoundManager == project_managers

\* Lines 520-522: a connection arrives and awaits the token check.
Connect(c) ==
  /\ connPc[c] = "none"
  /\ connPc' = [connPc EXCEPT ![c] = "auth"]
  /\ UNCHANGED <<coreVars, orderVars, agentVars, callVars, project_managers, constructed, connPm,
                 pmSockets, pmLast, pmSup, pmSandboxes, pmFailures>>

\* Lines 538-547: find the manager, or construct it, start() it (188) and
\* enter it in project_managers, with no suspension in between; then the
\* endpoint awaits websocket.accept().
GetOrCreate(c) ==
  /\ connPc[c] = "auth"
  /\ IF FoundManager = NoManager
     THEN /\ constructed < MaxManagers
          /\ constructed' = constructed + 1
          /\ project_managers' = constructed'
          /\ pmLast' = [pmLast EXCEPT ![constructed'] = now]
          /\ pmSup' = [pmSup EXCEPT ![constructed'] =
                         [s \in ServiceTypes |-> "start"]]
          /\ connPm' = [connPm EXCEPT ![c] = constructed']
     ELSE /\ connPm' = [connPm EXCEPT ![c] = FoundManager]
          /\ UNCHANGED <<constructed, project_managers, pmLast, pmSup>>
  /\ connPc' = [connPc EXCEPT ![c] = "accept"]
  /\ UNCHANGED <<coreVars, orderVars, agentVars, callVars, pmSockets, pmSandboxes, pmFailures>>

\* Line 548: pm.add_chat_socket on the manager the endpoint holds: it
\* sets last_activity (269) and registers the websocket (306-309), unless
\* a service of the project is missing (287-290); then the endpoint awaits
\* the messages of the websocket.
Register(c) ==
  /\ connPc[c] = "accept"
  /\ connPc' = [connPc EXCEPT ![c] = "open"]
  /\ pmSockets' = [pmSockets EXCEPT ![connPm[c]] =
                     IF services = ServiceTypes THEN @ \cup {c} ELSE @]
  /\ pmLast' = [pmLast EXCEPT ![connPm[c]] = now]
  /\ UNCHANGED <<coreVars, orderVars, agentVars, callVars, project_managers, constructed, connPm,
                 pmSup, pmSandboxes, pmFailures>>

\* remove_chat_socket (313-323) for a websocket whose chat has no key in
\* chat_sockets: line 316 evaluates self.chat_sockets[chat_id] inside a
\* try that catches ValueError only, so the KeyError leaves the method.
RemoveRaises(m, c) == c \notin pmSockets[m]

\* Lines 558-574: the peer disconnects (or the websocket was closed by
\* add_chat_socket, 289) and receive_text raises; the finally block calls
\* pm.remove_chat_socket.  When that raises, the endpoint is left by the
\* KeyError before websocket.close() and db.close() (570-574).
Disconnect(c) ==
  /\ connPc[c] = "open"
  /\ connPc' = [connPc EXCEPT ![c] =
                  IF RemoveRaises(connPm[c], c) THEN "raised" ELSE "gone"]
  /\ pmSockets' = [pmSockets EXCEPT ![connPm[c]] = @ \ {c}]
  /\ UNCHANGED <<coreVars, orderVars, agentVars, callVars, project_managers, constructed, connPm,
                 pmLast, pmSup, pmSandboxes, pmFailures>>

\* _try_manage_sandboxes (201-207) of manager m creates the
\* _manage_sandbox task of service s.
PmTryManage(m, s) ==
  /\ s \in services
  /\ pmSup[m][s] = "start"
  /\ pmSup' = [pmSup EXCEPT ![m][s] = "run"]
  /\ UNCHANGED <<coreVars, orderVars, agentVars, callVars, project_managers, constructed, connPc,
                 connPm, pmSockets, pmLast, pmSandboxes, pmFailures>>

\* _manage_sandbox of manager m, 220-238: the handle is stored.
PmManageGot(m, s) ==
  /\ pmSup[m][s] = "run"
  /\ pmSup' = [pmSup EXCEPT ![m][s] = "done"]
  /\ pmSandboxes' = [pmSandboxes EXCEPT ![m] = @ \cup {s}]
  /\ UNCHANGED <<coreVars, orderVars, agentVars, callVars, project_managers, constructed, connPc,
                 connPm, pmSockets, pmLast, pmFailures>>

\* _manage_sandbox of manager m, 242-252: the attempt failed, the task
\* sleeps before its retry.
PmManageFailed(m, s) ==
  /\ pmSup[m][s] = "run"
  /\ pmFailures < MaxFailures
  /\ pmFailures' = pmFailures + 1
  /\ pmSup' = [pmSup EXCEPT ![m][s] = "sleep"]
  /\ UNCHANGED <<coreVars, orderVars, agentVars, callVars, project_managers, constructed, connPc,
                 connPm, pmSockets, pmLast, pmSandboxes>>

\* _manage_sandbox of manager m, 247 / 253: the retry task is created.
PmManageRetry(m, s) ==
  /\ pmSup[m][s] = "sleep"
  /\ pmSup' = [pmSup EXCEPT ![m][s] = "run"]
  /\ UNCHANGED <<coreVars, orderVars, agentVars, callVars, project_managers, constructed, connPc,
                 connPm, pmSockets, pmLast, pmSandboxes, pmFailures>>

\* is_inactive (141-149) of manager m.
PmInactive(m) ==
  IF pmSockets[m] = {} THEN now - pmLast[m] > TimeoutMinutes ELSE FALSE

\* cleanup_inactive_project_managers (tasks.py 38-46): the registered
\* manager is inactive: kill() clears its maps (176-181), then
\* del project_managers[project_id].  kill() cancels no task.
Sweep ==
  /\ project_managers # NoManager
  /\ PmInactive(project_managers)
  /\ pmSandboxes' = [pmSandboxes EXCEPT ![project_managers] = {}]
  /\ pmSockets' = [pmSockets EXCEPT ![project_managers] = {}]
  /\ project_managers' = NoManager
  /\ UNCHANGED <<coreVars, orderVars, agentVars, callVars, constructed, connPc, connPm, pmLast,
                 pmSup, pmFailures>>

\* The same sweep when terminate() of the sandbox of service s raises
\* inside kill() (162; local_docker_sandbox.py:201-204 commits to the
\* database outside its try): kill() has no handler, so lines 164-181 are
\* not reached, and neither is line 45 of the cleanup task, whose loop is
\* left by the exception (tasks.py 23-27 prints it).
SweepKillRaises(s) ==
  /\ project_managers # NoManager
  /\ PmInactive(project_managers)
  /\ s \in pmSandboxes[project_managers]
  /\ ~sweepFailed
  /\ sweepFailed' = TRUE
  /\ UNCHANGED <<coreVars, orderVars, agentVars, toolVars, phaseVars, waitVars,
                 sessVars, regVars>>

\* Concurrent connections to the chats of one project.
ConnectNext ==
  \/ \E c \in Conns : Connect(c)
  \/ \E c \in Conns : GetOrCreate(c)
  \/ \E c \in Conns : Register(c)
  \/ \E c \in Conns : Disconnect(c)
  \/ \E m \in Managers, s \in ServiceTypes : PmTryManage(m, s)
  \/ \E m \in Managers, s \in ServiceTypes : PmManageGot(m, s)
  \/ \E m \in Managers, s \in ServiceTypes : PmManageFailed(m, s)
  \/ \E m \in Managers, s \in ServiceTypes : PmManageRetry(m, s)

ConnectSpec == Init /\ [][ConnectNext]_vars

\* The connections, the clock and the sweep of inactive managers.
RegistryNext ==
  \/ ConnectNext
  \/ Tick
  \/ Sweep
  \/ \E s \in ServiceTypes : SweepKillRaises(s)

RegistrySpec == Init /\ [][RegistryNext]_vars

\* ------------------------------------------------ the agent's generators
\* The content fragments of a model stream, and its chunks: content
\* fragments and tool-call requests.
Frags == {"a", "b"}
Chunks == [type : {"content"}, content : Frags]
            \cup {[type |-> "tool_calls", content |-> ""]}

\* The sequences over S of length at most n.
SeqUpTo(S, n) == UNION {[1..k -> S] : k \in 0..n}

\* A model stream ends, or raises after its last chunk.
Streams(n) == [chunks : SeqUpTo(Chunks, n), end : {"end", "raise"}]

\* PartialChatMessage (43-50) as the caller sees it, with the phase that
\* yielded it.
Partial(phase, content, thinking) ==
  [phase |-> phase, delta_content |-> content, delta_thinking_content |-> thinking]

\* What is left unchanged by every step of a generator.
AgentFrame == UNCHANGED <<coreVars, orderVars, regVars, agentInputs, callVars>>

\* step, 483: the initial empty partial.
StepStart ==
  /\ agMethod = "step"
  /\ agPc = "start"
  /\ yielded' = Append(yielded, Partial("initial", "", ""))
  /\ agPc' = "started"
  /\ AgentFrame
  /\ UNCHANGED <<planPos, execPos, planTools, applierBound, ingested, applied,
                 agError>>

\* step 485-506 / _run_phase 370-389: the prompt texts, then the planning
\* call of _plan (617-623) with tools=[].  In step files_text is bound
\* only when file_paths is not None (485-486), so line 503 raises
\* UnboundLocalError otherwise.
PlanBegin ==
  /\ \/ agMethod = "step" /\ agPc = "started"
     \/ agMethod = "_run_phase" /\ agPc = "start"
  /\ IF agMethod = "step" /\ ~filePaths
     THEN /\ agPc' = "raised"
          /\ agError' = "UnboundLocalError"
          /\ UNCHANGED planTools
     ELSE /\ agPc' = "plan"
          /\ planTools' = Append(planTools, {})
          /\ UNCHANGED agError
  /\ AgentFrame
  /\ UNCHANGED <<planPos, execPos, yielded, applierBound, ingested, applied>>

\* A generator that finalizes after a model stream raised.
FinalizeAfterStreamError == "finalize"

\* The position of a generator after its model stream raised: no handler
\* surrounds the loops (381-391, 431-449, 498-508, 548-563), the exception
\* leaves the generator.
AfterStreamError == "raised"

\* _plan 618-629 with 381-391 / 498-508: a content chunk of the planning
\* stream is yielded as thinking content; other chunks are passed over.
PlanChunk ==
  /\ agPc = "plan"
  /\ planPos < Len(planStream.chunks)
  /\ planPos' = planPos + 1
  /\ LET chunk == planStream.chunks[planPos'] IN
     yielded' = IF chunk.type = "content"
                THEN Append(yielded, Partial("plan", "", chunk.content))
                ELSE yielded
  /\ AgentFrame
  /\ UNCHANGED <<agPc, execPos, planTools, applierBound, ingested, applied,
                 agError>>

\* The DiffApplier bound to diff_applier when the execute loop is entered:
\* _run_phase creates it before the loop (428), step does not.
ApplierBeforeLoop == agMethod = "_run_phase"

\* The planning stream is over: it raised, or the execute call is made
\* (394-436, 513-554).
PlanEnd ==
  /\ agPc = "plan"
  /\ planPos = Len(planStream.chunks)
  /\ IF planStream.end = "raise"
     THEN /\ agPc' = AfterStreamError
          /\ agError' = "stream"
          /\ UNCHANGED applierBound
     ELSE /\ agPc' = "exec"
          /\ applierBound' = ApplierBeforeLoop
          /\ UNCHANGED agError
  /\ AgentFrame
  /\ UNCHANGED <<planPos, execPos, yielded, planTools, ingested, applied>>

\* What the DiffApplier named by diff_applier has ingested when a chunk of
\* the execute stream is handled: step creates a new DiffApplier for every
\* chunk (555), _run_phase keeps the one of line 428.
IngestedAtChunk == IF agMethod = "step" THEN <<>> ELSE ingested

\* 437-449 / 555-563: a content chunk is ingested and yielded, a tool-call
\* chunk yields a blank partial.
ExecChunk ==
  /\ agPc = "exec"
  /\ execPos < Len(execStream.chunks)
  /\ execPos' = execPos + 1
  /\ applierBound' = TRUE
  /\ LET chunk == execStream.chunks[execPos'] IN
     IF chunk.type = "content"
     THEN /\ ingested' = Append(IngestedAtChunk, chunk.content)
          /\ yielded' = Append(yielded, Partial("exec", chunk.content, ""))
     ELSE /\ ingested' = IngestedAtChunk
          /\ yielded' = Append(yielded, Partial("exec", "nl", ""))
  /\ AgentFrame
  /\ UNCHANGED <<agPc, planPos, planTools, applied, agError>>

\* The execute stream is over: it raised, or the loop is left.
ExecEnd ==
  /\ agPc = "exec"
  /\ execPos = Len(execStream.chunks)
  /\ IF execStream.end = "raise"
     THEN agPc' = AfterStreamError /\ agError' = "stream"
     ELSE agPc' = "finalize" /\ UNCHANGED agError
  /\ AgentFrame
  /\ UNCHANGED <<planPos, execPos, yielded, planTools, applierBound, ingested,
                 applied>>

\* 452 / 568: await diff_applier.apply(); an unbound diff_applier raises
\* UnboundLocalError.
Finalize ==
  /\ agPc = "finalize"
  /\ IF applierBound
     THEN /\ applied' = Append(applied, ingested)
          /\ agPc' = "done"
          /\ UNCHANGED agError
     ELSE /\ agPc' = "raised"
          /\ agError' = "UnboundLocalError"
          /\ UNCHANGED applied
  /\ AgentFrame
  /\ UNCHANGED <<planPos, execPos, yielded, planTools, applierBound, ingested>>

\* One run of Agent.step or Agent._run_phase over any model streams.
AgentInit ==
  /\ CoreInit /\ services = ServiceTypes
  /\ OrderVarsInit /\ RegVarsInit
  /\ agMethod \in {"step", "_run_phase"}
  /\ filePaths \in BOOLEAN
  /\ planStream \in Streams(MaxPlanChunks)
  /\ execStream \in Streams(MaxExecChunks)
  /\ AgentStateInit
  /\ CallVarsInit

AgentNext ==
  \/ StepStart
  \/ PlanBegin
  \/ PlanChunk
  \/ PlanEnd
  \/ ExecChunk
  \/ ExecEnd
  \/ Finalize

AgentSpec == AgentInit /\ [][AgentNext]_vars

\* ------------------------------------------------- the agent's tool calls
\* agents/agent.py: the tools an Agent offers to the model
\* (build_run_command_tool 53-81, build_navigate_to_tool 84-104) and
\* Agent._handle_tool_call (304-313), which runs the one the model asked for.

\* What Agent.sandbox can hold: the class LocalDockerSandbox put there by
\* __init__ (292), None or a sandbox handle put there by set_sandbox
\* (project_socket.py:297-302 passes self.sandboxes.get(...)).
SandboxValues == {"LocalDockerSandbox", "None", "sandbox"}

\* The names the model can ask for; the last one is offered by nobody.
ToolCallNames == {"run_command", "navigate_to", "delete_all"}

\* tool_call.function.arguments: a JSON object for run_command, one for
\* navigate_to, a JSON array, and text that is not JSON.
ArgumentTexts == {"{\"command\": \"ls\"}", "{\"path\": \"/settings\"}", "[]", "{"}

\* What LocalDockerSandbox.run_command (local_docker_sandbox.py:105-110)
\* answers: the output of the command, empty or not, or its own message
\* when there is no container.
Outputs == {"", "ok", "Container not started yet."}

BootingMessage == "This environment is still booting up! Try again in a minute."
EmptyResponse == "<empty response>"

\* 66-81 and 93-104: an AgentTool with its name and what its func closes
\* over.
BuildRunCommandTool(sb) == [name |-> "run_command", closure |-> sb]
BuildNavigateToTool == [name |-> "navigate_to", closure |-> "agent"]

\* json.loads (309) on the texts above: the keys of the decoded object.
JsonLoads(text) ==
  CASE text = "{\"command\": \"ls\"}" ->
         [ok |-> TRUE, kind |-> "dict", keys |-> {"command"}]
    [] text = "{\"path\": \"/settings\"}" ->
         [ok |-> TRUE, kind |-> "dict", keys |-> {"path"}]
    [] text = "[]" -> [ok |-> TRUE, kind |-> "list", keys |-> {}]
    [] OTHER -> [ok |-> FALSE, kind |-> "none", keys |-> {}]

\* A lookup that takes the first tool offered, whatever it is called.
FirstTool(ts, name) == IF ts = <<>> THEN 0 ELSE 1

\* 310: next((t for t in tools if t.name == tool_name), None), as the index
\* of the tool found, 0 for None.
FindTool(ts, name) ==
  IF \E i \in 1..Len(ts) : ts[i].name = name
    THEN CHOOSE i \in 1..Len(ts) :
           /\ ts[i].name = name
           /\ \A j \in 1..(i - 1) : ts[j].name # name
    ELSE 0

\* 56-64: the func of the run_command tool over the sandbox it closed
\* over. The class LocalDockerSandbox is not None, and calling its
\* run_command without an instance binds the command to self and raises
\* TypeError for the missing argument.
RunCommandFunc(sb, out) ==
  IF sb = "None"
    THEN [error |-> "none", result |-> BootingMessage, ran |-> FALSE, out |-> ""]
    ELSE IF sb = "LocalDockerSandbox"
      THEN [error |-> "TypeError", result |-> "None", ran |-> FALSE, out |-> ""]
      ELSE [error |-> "none",
            result |-> IF out = "" THEN EmptyResponse ELSE out,
            ran |-> TRUE, out |-> out]

\* tool.func(**arguments) once the tool is called: Python binds the
\* keyword arguments to the parameters of func (56, 88) and raises
\* TypeError when they do not fit.
ToolFunc(tool, kwargs, out) ==
  IF tool.name = "run_command"
    THEN IF "command" \in kwargs /\ kwargs \subseteq {"command", "workdir"}
           THEN RunCommandFunc(tool.closure, out)
           ELSE [error |-> "TypeError", result |-> "None", ran |-> FALSE, out |-> ""]
    ELSE IF kwargs = {"path"}
           THEN [error |-> "none", result |-> "Navigating user to /settings",
                 ran |-> FALSE, out |-> ""]
           ELSE [error |-> "TypeError", result |-> "None", ran |-> FALSE, out |-> ""]

ToolFrame ==
  UNCHANGED <<coreVars, orderVars, regVars, agentVars, phaseVars, laterVars>>

\* set_sandbox, 298-302.
SetSandbox(sb) ==
  /\ tcPc = "new"
  /\ agSandbox # sb
  /\ agSandbox' = sb
  /\ ToolFrame
  /\ UNCHANGED <<tools, tcPc, tool_name, arguments, invoked, cmdOutput,
                 commandsRun, working_page, tcResult, tcError>>

\* 425, 542: the tools of a model call are built over the sandbox the
\* agent has at that moment. _handle_tool_call takes any list of them.
BuildTools(names) ==
  /\ tcPc = "new"
  /\ tools' = [i \in 1..Len(names) |->
                 IF names[i] = "run_command"
                   THEN BuildRunCommandTool(agSandbox)
                   ELSE BuildNavigateToTool]
  /\ tcPc' = "built"
  /\ ToolFrame
  /\ UNCHANGED <<agSandbox, tool_name, arguments, invoked, cmdOutput,
                 commandsRun, working_page, tcResult, tcError>>

\* The lists of tools a call can be handled with, by name.
ToolLists == SeqUpTo({"run_command", "navigate_to"}, MaxTools)

\* _handle_tool_call, 308-313, with the answer out of the sandbox in case
\* a command reaches it.
HandleToolCall(name, text, out) ==
  /\ tcPc = "built"
  /\ tool_name' = name
  /\ arguments' = text
  /\ LET dec == JsonLoads(text)
         i == FindTool(tools, name)
     IN
       IF ~dec.ok
         THEN /\ tcPc' = "raised"
              /\ tcError' = "JSONDecodeError"
              /\ UNCHANGED <<invoked, cmdOutput, commandsRun, working_page, tcResult>>
         ELSE IF i = 0
           THEN /\ tcPc' = "raised"
                /\ tcError' = "ValueError"
                /\ UNCHANGED <<invoked, cmdOutput, commandsRun, working_page, tcResult>>
           ELSE IF dec.kind # "dict"
             THEN /\ tcPc' = "raised"
                  /\ tcError' = "TypeError"
                  /\ UNCHANGED <<invoked, cmdOutput, commandsRun, working_page,
                                 tcResult>>
             ELSE LET r == ToolFunc(tools[i], dec.keys, out)
                  IN  /\ invoked' = Append(invoked, [tool |-> i, kwargs |-> dec.keys])
                      /\ cmdOutput' = r.out
                      /\ commandsRun' = IF r.ran THEN commandsRun + 1 ELSE commandsRun
                      /\ working_page' =
                           IF tools[i].name = "navigate_to" /\ r.error = "none"
                             THEN "/settings" ELSE working_page
                      /\ tcResult' = r.result
                      /\ tcError' = r.error
                      /\ tcPc' = IF r.error = "none" THEN "returned" ELSE "raised"
  /\ ToolFrame
  /\ UNCHANGED <<agSandbox, tools>>

\* One tool call of an Agent, before or after set_sandbox.
ToolInit ==
  /\ CoreInit /\ services = ServiceTypes
  /\ OrderVarsInit /\ RegVarsInit /\ AgentVarsInit
  /\ CallVarsInit

ToolNext ==
  \/ \E sb \in SandboxValues \ {"LocalDockerSandbox"} : SetSandbox(sb)
  \/ \E names \in ToolLists : BuildTools(names)
  \/ \E name \in ToolCallNames, text \in ArgumentTexts, out \in Outputs :
       HandleToolCall(name, text, out)

ToolSpec == ToolInit /\ [][ToolNext]_vars

\* --------------------------------------------- the two phases of a turn
\* agents/agent.py: Agent.multi_phase_step (334-354) over the turns of one
\* Agent, with the BACKEND DOC that _run_phase (454-459) takes out of the
\* response of phase 1. A text is a sequence of tokens.
Marker == "BACKEND DOC:"
\* Fence stands for the three backquotes that open or close a code block.
Fence == "<fence>"
Blank == " "
Tokens == {Marker, Fence, Blank, "a"}

\* The responses the model can give in phase 1.
Responses == SeqUpTo(Tokens, MaxResponse)

\* The first position, from the given one on, where text holds tok, 0 if
\* none.
FirstIndex(text, tok, from) ==
  IF \E i \in from..Len(text) : text[i] = tok
    THEN CHOOSE i \in from..Len(text) :
           /\ text[i] = tok
           /\ \A j \in from..(i - 1) : text[j] # tok
    ELSE 0

\* str.strip(), 459.
RECURSIVE Strip(_)
Strip(text) ==
  IF text = <<>> THEN <<>>
  ELSE IF Head(text) = Blank THEN Strip(Tail(text))
  ELSE IF text[Len(text)] = Blank THEN Strip(SubSeq(text, 1, Len(text) - 1))
  ELSE text

\* 457: re.search(r"BACKEND DOC:(.*?)(<fence>|$)", text, re.DOTALL): the first
\* marker, and after it the shortest text up to a fence or the end.
DocMatch(text) ==
  LET m == FirstIndex(text, Marker, 1)
      e == IF m = 0 THEN 0 ELSE FirstIndex(text, Fence, m + 1)
  IN  IF m = 0
        THEN [found |-> FALSE, group |-> <<>>]
        ELSE [found |-> TRUE,
              group |-> SubSeq(text, m + 1, IF e = 0 THEN Len(text) ELSE e - 1)]

\* 352: what the f-string puts in the place of {self.backend_doc}.
Interpolated(doc) == IF doc.set THEN doc.text ELSE <<"None">>

PhaseFrame ==
  UNCHANGED <<coreVars, orderVars, regVars, agentVars, toolVars, laterVars>>

\* 346-348: a turn begins with phase 1.
MultiPhaseStart ==
  /\ mpPc = "idle"
  /\ turn < MaxTurns
  /\ turn' = turn + 1
  /\ mpPc' = "phase1"
  /\ final_response_text' = <<>>
  /\ phase2_plan' = <<>>
  /\ PhaseFrame
  /\ UNCHANGED <<backend_doc, docTurn>>

\* 348 with 431-459: phase 1 ran to its end with the response resp, and
\* store_backend_doc is True.
Phase1Done(resp) ==
  /\ mpPc = "phase1"
  /\ final_response_text' = resp
  /\ LET doc_match == DocMatch(resp)
     IN  IF doc_match.found
           THEN /\ backend_doc' = [set |-> TRUE, text |-> Strip(doc_match.group)]
                /\ docTurn' = turn
           ELSE UNCHANGED <<backend_doc, docTurn>>
  /\ mpPc' = "phase1_done"
  /\ PhaseFrame
  /\ UNCHANGED <<turn, phase2_plan>>

\* 348: the model stream or apply() of phase 1 raised; the turn is over.
Phase1Raises ==
  /\ mpPc = "phase1"
  /\ mpPc' = "idle"
  /\ PhaseFrame
  /\ UNCHANGED <<backend_doc, docTurn, turn, final_response_text, phase2_plan>>

\* 352-353: the instructions of phase 2 are made and phase 2 begins.
Phase2Begin ==
  /\ mpPc = "phase1_done"
  /\ phase2_plan' = Interpolated(backend_doc)
  /\ mpPc' = "phase2"
  /\ PhaseFrame
  /\ UNCHANGED <<backend_doc, docTurn, turn, final_response_text>>

\* 353-354: phase 2 is over (store_backend_doc is False), and so the turn.
Phase2Done ==
  /\ mpPc = "phase2"
  /\ mpPc' = "idle"
  /\ PhaseFrame
  /\ UNCHANGED <<backend_doc, docTurn, turn, final_response_text, phase2_plan>>

\* The turns of one Agent, one after the other.
PhaseInit ==
  /\ CoreInit /\ services = ServiceTypes
  /\ OrderVarsInit /\ RegVarsInit /\ AgentVarsInit
  /\ CallVarsInit

PhaseNext ==
  \/ MultiPhaseStart
  \/ \E resp \in Responses : Phase1Done(resp)
  \/ Phase1Raises
  \/ Phase2Begin
  \/ Phase2Done

PhaseSpec == PhaseInit /\ [][PhaseNext]_vars

\* ---------------------------------------------- waiting for a sandbox
\* The readiness checks of one wait that the model follows.
MaxChecks == 2

\* wait_for_up (local_docker_sandbox.py 74-79), reached from
\* get_sandbox_for_project (sandbox_handler.py 53-62) at line 220 of
\* _manage_sandbox: is_up() returned False, the loop sleeps a second and
\* checks again.  Nothing of the ProjectManager is assigned.
WaitForUpNotUp(s) ==
  /\ sup[s] = "run"
  /\ notUp[s] < MaxChecks
  /\ notUp' = [notUp EXCEPT ![s] = @ + 1]
  /\ UNCHANGED <<coreVars, orderVars, regVars, agentVars, toolVars, phaseVars,
                 sweepVars, sessVars>>

\* The supervisors of a project with listeners coming and going, and the
\* readiness checks of their waits.
WaitNext ==
  \/ \E s \in Sockets : AddChatSocket(s)
  \/ \E s \in Sockets : PeerGone(s)
  \/ \E s \in Sockets : RemoveChatSocket(s)
  \/ \E s \in ServiceTypes : TryManageSandboxes(s)
  \/ \E s \in ServiceTypes : WaitForUpNotUp(s)
  \/ \E s \in ServiceTypes : ManageSandboxGot(s)
  \/ \E s \in ServiceTypes : ManageSandboxLoaded(s)
  \/ \E s \in ServiceTypes, notReady \in BOOLEAN : ManageSandboxFailed(s, notReady)
  \/ \E s \in ServiceTypes : ManageSandboxRetry(s)

WaitSpec == Init /\ [][WaitNext]_vars

\* ------------------------------------------------- chat sessions' agents
\* The handles _manage_sandbox stores for one service (first attempt and
\* retries), and the paths navigate_to is called with.
MaxHandles == 2
Pages == {"/", "/about"}

\* Handle number n of a service; 0 is None (self.sandboxes.get of a
\* service with no stored handle, 297-298).
Handles == 0..MaxHandles

SessFrame ==
  UNCHANGED <<coreVars, orderVars, regVars, agentVars, toolVars, phaseVars,
              sweepVars, waitVars>>

\* _manage_sandbox, 220-223: get_sandbox_for_project returned a new
\* LocalDockerSandbox (sandbox_handler.py 53) and it is stored for the
\* service, on the first attempt or on a retry (247, 253).
SessStoreHandle(s) ==
  /\ sbGen[s] < MaxHandles
  /\ sbGen' = [sbGen EXCEPT ![s] = @ + 1]
  /\ UNCHANGED <<sessChats, agSb, agPage, sessPc, navigated, hint>>
  /\ SessFrame

\* The handle add_chat_socket gives the agent of service s (297-302).
BoundAtCreation(s) == sbGen[s]

\* add_chat_socket, 292-307, for the first socket of chat c: the agents
\* are created (working_page None, agent.py 293) and each is given what
\* self.sandboxes holds now.
SessAdd(c) ==
  /\ c \notin sessChats
  /\ sessChats' = sessChats \cup {c}
  /\ agSb' = [agSb EXCEPT ![c] = [s \in ServiceTypes |-> BoundAtCreation(s)]]
  /\ agPage' = [agPage EXCEPT ![c] = "None"]
  /\ hint' = [hint EXCEPT ![c] = "unsent"]
  /\ navigated' = [navigated EXCEPT ![c] = FALSE]
  /\ UNCHANGED <<sbGen, sessPc>>
  /\ SessFrame

\* remove_chat_socket, 319-323, for the last socket of chat c, between
\* turns: the agents are discarded.
SessRemove(c) ==
  /\ c \in sessChats
  /\ sessPc[c] = "idle"
  /\ sessChats' = sessChats \ {c}
  /\ agSb' = [agSb EXCEPT ![c] = [s \in ServiceTypes |-> 0]]
  /\ agPage' = [agPage EXCEPT ![c] = "None"]
  /\ UNCHANGED <<sbGen, sessPc, navigated, hint>>
  /\ SessFrame

\* _handle_chat_message, 330-382, for chat c: the lock is free, both
\* services have a stored, ready handle (354-371), and the turn starts
\* with the agents of the session as they are (405-407).
SessTurnStart(c) ==
  /\ c \in sessChats
  /\ \A d \in Chats : sessPc[d] = "idle"
  /\ \A s \in ServiceTypes : sbGen[s] > 0
  /\ sessPc' = [sessPc EXCEPT ![c] = "turn"]
  /\ navigated' = [navigated EXCEPT ![c] = FALSE]
  /\ UNCHANGED <<sbGen, sessChats, agSb, agPage, hint>>
  /\ SessFrame

\* The func of the frontend agent's navigate_to tool (agent.py 88-91)
\* called with path during the turn of chat c.
SessNavigate(c, path) ==
  /\ sessPc[c] = "turn"
  /\ agPage' = [agPage EXCEPT ![c] = path]
  /\ navigated' = [navigated EXCEPT ![c] = TRUE]
  /\ UNCHANGED <<sbGen, sessChats, agSb, sessPc, hint>>
  /\ SessFrame

\* _handle_chat_message, 463-476: the final update of the turn carries
\* navigate_to = frontend_agent.working_page, and the turn ends.
SessFinal(c) ==
  /\ sessPc[c] = "turn"
  /\ hint' = [hint EXCEPT ![c] = agPage[c]]
  /\ sessPc' = [sessPc EXCEPT ![c] = "idle"]
  /\ UNCHANGED <<sbGen, sessChats, agSb, agPage, navigated>>
  /\ SessFrame

SessNext ==
  \/ \E s \in ServiceTypes : SessStoreHandle(s)
  \/ \E c \in Chats : SessAdd(c)
  \/ \E c \in Chats : SessRemove(c)
  \/ \E c \in Chats : SessTurnStart(c)
  \/ \E c \in Chats, path \in Pages : SessNavigate(c, path)
  \/ \E c \in Chats : SessFinal(c)

SessSpec == Init /\ [][SessNext]_vars

\* ------------------------------------------------------------- claims

\* C1: for every chat at most one turn is in flight at any time: while a
\* turn of a chat runs, any other on_chat_message task of the same chat is
\* either waiting on the lock or over, and a waiting task has done no step
\* of its turn.
C1_OneTurnPerChat ==
  \A t, u \in Tasks :
    (t # u /\ taskChat[t] = taskChat[u] /\ InFlight(t)) =>
      /\ ~InFlight(u)
      /\ (pc[u] = "waiting" =>
            /\ transcript[u] = <<>>
            /\ written[u] = {}
            /\ assigned[u] = <<>>
            /\ \A i \in 1..Len(db) : db[i].task # u)

C1_Witness ==
  \E t, u \in Tasks :
    /\ t # u /\ taskChat[t] = taskChat[u]
    /\ pc[t] = "writing" /\ pc[u] = "waiting"

C3_LockReleased ==
  /\ [](locked => \E t \in Tasks : InFlight(t))
  /\ \A u \in Tasks : (pc[u] = "waiting") ~> (pc[u] # "waiting")

C3_Witness ==
  \E t, u \in Tasks :
    /\ t < u /\ taskChat[t] = taskChat[u]
    /\ pc[t] = "raised" /\ written[t] = {"backend"}
    /\ pc[u] = "done"

\* C4: within one chat the turns run in arrival order (a later message
\* enters its turn only after every earlier one is over), and the
\* transcript a turn loads contains the assistant message of every earlier
\* turn of the chat that persisted one.
C4_TurnsInArrivalOrder ==
  \A t, u \in Tasks :
    (t < u /\ taskChat[t] = taskChat[u]) =>
      /\ (pc[u] \notin {"none", "waiting"} => pc[t] \in FinishedPcs)
      /\ \A i \in 1..Len(db) :
           (transcript[u] # <<>> /\ db[i] = DbMessage(taskChat[t], "assistant", t))
             => \E j \in 1..Len(transcript[u]) : transcript[u][j] = db[i]

C4_Witness ==
  \E t, u \in Tasks :
    /\ t < u /\ taskChat[t] = taskChat[u]
    /\ pc[t] = "done" /\ pc[u] = "writing"
    /\ Len(transcript[t]) = 1 /\ Len(transcript[u]) = 3

\* The edges of the status state machine (any -> OFFLINE is allowed as
\* well); a service without a key counts as OFFLINE.
SpecEdges ==
  {<<"OFFLINE", "BUILDING">>, <<"BUILDING", "BUILDING_WAITING">>,
   <<"BUILDING", "READY">>, <<"BUILDING_WAITING", "READY">>,
   <<"BUILDING_WAITING", "OFFLINE">>, <<"READY", "WORKING">>,
   <<"WORKING", "WORKING_APPLYING">>, <<"WORKING_APPLYING", "READY">>}

StatusOrOffline(s) ==
  IF sandbox_statuses[s] = ABSENT THEN "OFFLINE" ELSE sandbox_statuses[s]

\* C5: every change of a service's status made by _try_manage_sandboxes,
\* _manage_sandbox and _handle_chat_message follows an edge of the status
\* state machine or leads to OFFLINE.
C5_OnlySpecEdges ==
  [][\A s \in ServiceTypes :
       sandbox_statuses'[s] # sandbox_statuses[s] =>
         \/ sandbox_statuses'[s] = "OFFLINE"
         \/ <<StatusOrOffline(s), sandbox_statuses'[s]>> \in SpecEdges]_vars

\* C6: a successful turn that started with the backend READY takes the
\* backend through WORKING, WORKING_APPLYING and READY, in that order.
C6_StatusOrder ==
  \A t \in Tasks :
    (startedReady[t] /\ pc[t] \in {"ready_set", "done"}) =>
      assigned[t] = <<"WORKING", "WORKING_APPLYING", "READY">>

\* C7: a turn that persisted its assistant message has made a checkpoint
\* commit by the time it sets the statuses back to READY.
C7_CommitBeforeReady ==
  \A t \in Tasks :
    (pc[t] \in {"ready_set", "done"}
       /\ \E i \in 1..Len(db) : db[i] = DbMessage(taskChat[t], "assistant", t))
      => commits[t] >= 1

\* C8: when the turn finds the backend sandbox missing, its error event
\* is delivered to every connected listener of the chat, those listeners
\* stay registered, and the turn has persisted no message, written no file
\* and made no commit.
C8_ErrorEventDelivered ==
  [][\A t \in Tasks :
       (pc[t] = "nr_status" /\ pc'[t] = "ret" /\ assigned[t] = <<"OFFLINE">>) =>
         /\ \A s \in Receivers(taskChat[t]) :
              /\ <<"error", t>> \in delivered'[s]
              /\ s \in Range(chat_sockets'[taskChat[t]])
         /\ db' = db
         /\ written'[t] = {}
         /\ commits'[t] = 0]_vars

C10_NoBackendEndsEarly ==
  \A t \in Tasks :
    ("backend" \notin services /\ pc[t] \notin {"none", "waiting"}) =>
      pc[t] \in {"ret", "returned"}

\* C11: when a turn that has started fails with an exception (the agent
\* returns no result, a sandbox write raises), an error event of that turn
\* reaches every listener of the chat, and the lock is free again, so the
\* manager goes on with the messages of every chat.
C11_ErrorEventOnFailure ==
  [][\A t \in Tasks :
       (pc[t] \in {"user_saved", "writing"} /\ pc'[t] = "raised"
          /\ taskChat[t] \in chat_agents) =>
         /\ \A s \in Receivers(taskChat[t]) : <<"error", t>> \in delivered'[s]
         /\ ~locked']_vars

\* The websockets registered as listeners of some chat.
Listeners == UNION {Range(chat_sockets[c]) : c \in Chats}

\* C12: is_inactive(timeout) is false in every state with at least one
\* registered listener, whatever time has passed since last_activity, and
\* it is true only in states with no registered listener in which more
\* than timeout minutes have passed since last_activity.
C12_InactiveOnlyWithoutListeners ==
  \A tm \in {0, TimeoutMinutes, MaxNow} :
    /\ Listeners # {} => ~is_inactive(tm)
    /\ is_inactive(tm) => (Listeners = {} /\ now - last_activity > tm)

C12_Witness ==
  /\ Listeners # {}
  /\ now - last_activity > TimeoutMinutes
  /\ ~is_inactive(TimeoutMinutes)

\* C13: a turn in flight whose chat lost its last listener (so that
\* remove_chat_socket dropped the chat's key and agents) is not aborted by
\* that: past the broadcast of the user message it goes on to the agent
\* run instead of raising.
C13_TurnSurvivesLastListener ==
  [][\A t \in Tasks :
       (pc[t] = "user_saved" /\ taskChat[t] \notin chat_keys) =>
         pc'[t] # "raised"]_vars

\* C14: when the send to one listener of a broadcast fails, only that
\* listener is removed from the chat's list, the sends to the other
\* listeners of the snapshot stay under way, and the failure does not leave
\* emit_chat.
C14_FailureIsolated ==
  [][\A s \in pending :
       (s \notin pending' /\ sockState[s] # "open") =>
         /\ \A c \in Chats :
              chat_sockets'[c] =
                IF c = emitChat THEN SelectSeq2(chat_sockets[c], {s})
                ELSE chat_sockets[c]
         /\ pending' = pending \ {s}
         /\ emitState' # "raised"]_vars

\* C15: whatever add_chat_socket and remove_chat_socket do while a
\* broadcast is suspended in its sends, emit_chat does not raise.
C15_EmitChatNeverRaises == emitState # "raised"

C17_NothingAfterKill ==
  (killed /\ services = ServiceTypes) =>
    \A s \in ServiceTypes : ~sandboxes[s] /\ sandbox_statuses[s] = ABSENT

\* The supervisors asleep between a failed attempt and its retry.
Sleeping == {s \in ServiceTypes : sup[s] = "sleep"}

C19_SupervisionNeverGivesUp ==
  \A s \in services :
    (/\ started /\ ~killed
     /\ \A t \in Tasks : ~InFlight(t)
     /\ sandbox_statuses[s] # "READY") => sup[s] # "done"

\* C20: every value assigned to a service's entry of sandbox_statuses is
\* carried by a status broadcast before the entry is changed again or
\* removed: an entry only changes when the last emit_project carried its
\* current value.
C20_StatusChangeBroadcast ==
  [][\A s \in ServiceTypes :
       sandbox_statuses'[s] # sandbox_statuses[s] =>
         broadcast[s] = sandbox_statuses[s]]_vars

\* C21: every listener is sent the statuses of a service in the order in
\* which they were assigned: in the sequence of status broadcasts a
\* websocket received, a later one never carries an earlier assignment of
\* a service than one before it, whichever tasks issued the broadcasts.
C21_StatusOrderPerListener ==
  \A s \in Sockets, svc \in ServiceTypes :
    \A i, j \in 1..Len(inbox[s]) :
      i < j => inbox[s][i][svc] <= inbox[s][j][svc]

C21_Witness ==
  \E s \in Sockets, svc \in ServiceTypes :
    /\ Len(inbox[s]) = 1
    /\ \E i, j \in QueuedFor(s) :
         /\ i < j
         /\ inbox[s][1][svc] < ready[i].data[svc]
         /\ ready[i].data[svc] < ready[j].data[svc]

\* The managers with an active supervisor of service s: a _manage_sandbox
\* that is running or waiting for its retry.
ActiveSupervisors(s) == {m \in Managers : pmSup[m][s] \in {"run", "sleep"}}

\* The managers that hold a sandbox handle of service s.
HandleHolders(s) == {m \in Managers : s \in pmSandboxes[m]}

\* C22: at any time every service has at most one active supervisor and
\* at most one live sandbox handle in the whole process, also after a
\* manager was reclaimed and a new one was constructed for the project.
C22_OneSupervisorPerService ==
  \A s \in ServiceTypes :
    /\ Cardinality(ActiveSupervisors(s)) <= 1
    /\ Cardinality(HandleHolders(s)) <= 1

\* C24: whatever the interleaving of concurrent connections to chats of
\* the project, one ProjectManager is constructed and started, it is the
\* one in the registry, and every connection holds it and is registered
\* on it.
C24_OneManagerPerProject ==
  /\ constructed <= 1
  /\ \A c \in Conns :
       connPc[c] \in {"accept", "open", "gone"} =>
         /\ project_managers # NoManager
         /\ connPm[c] = project_managers
  /\ \A m \in Managers : pmSockets[m] # {} => m = project_managers
  /\ \A m \in Managers :
       (\E s \in ServiceTypes : pmSup[m][s] # "none") => m = project_managers

C24_Witness ==
  /\ constructed = 1
  /\ \A c \in Conns : connPc[c] = "open" /\ c \in pmSockets[project_managers]
  /\ pmSup[project_managers]["backend"] = "run"

\* The websockets of chat c whose endpoint is about to call
\* remove_chat_socket: the peer is gone or the websocket was closed.
LeavingSockets(c) ==
  {s \in Sockets : sockChat[s] = c /\ sockState[s] \in {"broken", "rejected"}}

\* C23: when the listener list of a chat becomes empty the chat's session
\* is discarded: chat_sockets maps no chat to an empty list and chat_agents
\* holds no agents of a chat without listeners, except while a websocket
\* of the chat is still on its way out through remove_chat_socket.
C23_EmptySessionDiscarded ==
  \A c \in Chats :
    ((c \in chat_keys \/ c \in chat_agents) /\ chat_sockets[c] = <<>>)
      => LeavingSockets(c) # {}

\* Both model streams of the run end without raising, and the planning
\* call was made.
StreamsEndNormally ==
  planTools # <<>> /\ planStream.end = "end" /\ execStream.end = "end"

\* C25: a run of Agent.step or Agent._run_phase goes through PLAN, EXECUTE
\* and FINALIZE: the planning call gets no tools and its fragments are
\* yielded as thinking content only; no fragment of the execute phase is
\* yielded before the planning stream has ended, nor a plan fragment after
\* one; and diff_applier.apply() is called once the execute stream has
\* ended, exactly once.
C25_PlanExecuteFinalize ==
  /\ \A i \in 1..Len(planTools) : planTools[i] = {}
  /\ \A i \in 1..Len(yielded) :
       /\ yielded[i].phase = "plan" =>
            yielded[i].delta_content = "" /\ yielded[i].delta_thinking_content \in Frags
       /\ yielded[i].phase = "exec" =>
            /\ planPos = Len(planStream.chunks) /\ planStream.end = "end"
            /\ \A j \in i..Len(yielded) : yielded[j].phase = "exec"
  /\ Len(applied) <= 1
  /\ applied # <<>> => (execPos = Len(execStream.chunks) /\ execStream.end = "end")
  /\ (agPc \in {"done", "raised"} /\ StreamsEndNormally) => Len(applied) = 1

\* The content fragments the execute phase yielded to the caller, in order
\* (the blank partial of a tool-call chunk is not a fragment of the stream).
ExecFragments ==
  LET ys == SelectSeq(yielded, LAMBDA y : y.phase = "exec" /\ y.delta_content \in Frags)
  IN [i \in 1..Len(ys) |-> ys[i].delta_content]

\* C26: in Agent.step and in Agent._run_phase, the DiffApplier that
\* apply() is called on has ingested every content fragment the execute
\* phase yielded, in the order they were streamed.
C26_AppliedIsWhatWasYielded ==
  \A i \in 1..Len(applied) : applied[i] = ExecFragments

\* The model stream the generator consumes is at its end and raises.
AtStreamError ==
  \/ agPc = "plan" /\ planPos = Len(planStream.chunks) /\ planStream.end = "raise"
  \/ agPc = "exec" /\ execPos = Len(execStream.chunks) /\ execStream.end = "raise"

\* C27: when the model stream raises during the plan or the execute phase
\* of Agent.step or Agent._run_phase, the exception leaves the generator,
\* what was yielded before stays yielded, and diff_applier.apply() is not
\* called in that run.
C27_StreamErrorPropagates ==
  /\ [][/\ Len(yielded') >= Len(yielded)
        /\ SubSeq(yielded', 1, Len(yielded)) = yielded
        /\ AtStreamError =>
             (agPc' = "raised" /\ agError' = "stream" /\ yielded' = yielded)]_vars
  /\ [](agError = "stream" => (agPc = "raised" /\ applied = <<>>))

C27_Witness ==
  /\ agMethod = "_run_phase"
  /\ agPc = "raised" /\ agError = "stream"
  /\ execStream.end = "raise"
  /\ Len(ingested) = 2 /\ ExecFragments = ingested
  /\ applied = <<>>


\* The requested name is the name of one of the tools offered.
NameOffered == \E i \in 1..Len(tools) : tools[i].name = tool_name

\* _handle_tool_call is over: it returned or raised.
ToolCallOver == tcPc \in {"returned", "raised"}

\* The one call made went to the first tool offered under the requested
\* name, with the keyword arguments json.loads gave.
InvokedThatToolOnce ==
  /\ Len(invoked) = 1
  /\ tools[invoked[1].tool].name = tool_name
  /\ \A j \in 1..(invoked[1].tool - 1) : tools[j].name # tool_name
  /\ JsonLoads(arguments).ok
  /\ invoked[1].kwargs = JsonLoads(arguments).keys

\* C28: _handle_tool_call raises an error and invokes no tool whenever the
\* requested tool name matches none of the offered tools; when the name
\* matches it invokes exactly that tool once with the decoded arguments.
C28_ToolCallFindsItsTool ==
  ToolCallOver =>
    /\ ~NameOffered => (tcPc = "raised" /\ invoked = <<>>)
    /\ NameOffered => InvokedThatToolOnce

\* C28, amended: as above when the arguments are the text of a JSON
\* object; when they are not JSON, or JSON of another kind, the call raises
\* and invokes no tool, whether the name matches or not.
C28_ToolCallFindsItsToolGivenAnObject ==
  ToolCallOver =>
    /\ ~NameOffered => (tcPc = "raised" /\ invoked = <<>>)
    /\ (NameOffered /\ JsonLoads(arguments).kind = "dict") => InvokedThatToolOnce
    /\ JsonLoads(arguments).kind # "dict" => (tcPc = "raised" /\ invoked = <<>>)

\* A call that found its tool behind another one and returned its answer.
C28_Witness ==
  /\ tcPc = "returned"
  /\ Len(tools) = 2
  /\ tools[1].name # tool_name
  /\ Len(invoked) = 1
  /\ invoked[1].tool = 2

\* The run_command tool was called with arguments that fit its func.
RunCommandCalled ==
  /\ ToolCallOver
  /\ invoked # <<>>
  /\ tools[invoked[1].tool].name = "run_command"
  /\ "command" \in invoked[1].kwargs

\* C29: the run_command tool built for an agent whose sandbox is missing
\* returns the "still booting" message for every command and never raises
\* or runs a command; with a sandbox present it returns the command output,
\* or "<empty response>" when the output is empty.
C29_RunCommandDegrades ==
  RunCommandCalled =>
    LET sb == tools[invoked[1].tool].closure
    IN  /\ sb # "sandbox" =>
             /\ tcPc = "returned"
             /\ tcResult = BootingMessage
             /\ commandsRun = 0
        /\ sb = "sandbox" =>
             /\ tcPc = "returned"
             /\ commandsRun = 1
             /\ tcResult = IF cmdOutput = "" THEN EmptyResponse ELSE cmdOutput


\* C30: in multi_phase_step, when the response of phase 1 holds no
\* BACKEND DOC: marker, no doc carries forward: the instructions of phase 2
\* do not contain a backend doc taken out of the response of an earlier
\* turn of the same Agent.
C30_NoStaleBackendDoc ==
  (mpPc = "phase2" /\ ~DocMatch(final_response_text).found) =>
    ~(/\ backend_doc.set
      /\ docTurn < turn
      /\ backend_doc.text # <<>>
      /\ phase2_plan = backend_doc.text)


\* A websocket that is registered and connected: it receives what
\* emit_project sends.
Listening(k) ==
  /\ sockState[k] = "open"
  /\ \E i \in 1..Len(chat_sockets[sockChat[k]]) : chat_sockets[sockChat[k]][i] = k

\* The first _manage_sandbox of service s has assigned READY (224) and is
\* at its eager loads (228-236), and no turn has loaded anything either
\* (455-456): the file paths of s, and the address of the frontend, are
\* still None.
FirstLoadsPending(s) == sup[s] = "loading" /\ retries = 0 /\ nextTask = 0

\* C34: no status broadcast shows a service as READY before its eager
\* loads are done: when a listener receives a status with a READY service,
\* the file paths of that service (and the address of the frontend) are
\* set, whichever task issued the broadcast.
C34_ReadyOnlyAfterLoads ==
  \A s \in ServiceTypes :
    (broadcast[s] = "READY" /\ \E k \in Sockets : Listening(k)) =>
      ~FirstLoadsPending(s)

\* The positions of a turn between the assignment of WORKING (379-382)
\* and the assignment of READY (474-476).
WorkingPcs == {"working", "user_saved", "writing", "asst_saved", "final"}

\* C35: whenever no turn is in flight, no service has the status WORKING
\* or WORKING_APPLYING: a turn that ends by an exception after it set
\* WORKING restores the statuses before the lock is released.
C35_NoWorkingWithoutTurn ==
  (\A t \in Tasks : ~InFlight(t)) =>
    \A s \in ServiceTypes :
      sandbox_statuses[s] \notin {"WORKING", "WORKING_APPLYING"}

\* C36: while a turn is in flight and has set the services to WORKING, a
\* status that is WORKING is changed by a step of that turn only: no
\* supervisor sets it to READY, BUILDING_WAITING or OFFLINE before the turn
\* has finished.
C36_WorkingOwnedByTurn ==
  [][\A s \in ServiceTypes :
       (/\ \E t \in Tasks : pc[t] \in WorkingPcs
        /\ sandbox_statuses[s] = "WORKING"
        /\ sandbox_statuses'[s] # "WORKING")
       => \E t \in Tasks : pc[t] \in WorkingPcs /\ pc'[t] # pc[t]]_vars

\* C38: a ProjectManager with a turn in flight is never reclaimed: while
\* _handle_chat_message runs for one of its chats (here: between its
\* assignments of WORKING and of READY) the sweep has not found the
\* manager inactive and killed it, even when every listener is gone and
\* the timeout since the message has elapsed.
C38_NoReclaimDuringTurn ==
  (\E t \in Tasks : pc[t] \in WorkingPcs) => ~killed


\* C37: cleanup_inactive_project_managers never kills or removes a
\* ProjectManager that has a registered listener, and no listener that was
\* connecting while the sweep ran is left attached to a manager that is no
\* longer in the registry: the manager of every registered listener is the
\* one project_managers holds.
C37_ListenerOnRegisteredManager ==
  \A m \in Managers : pmSockets[m] # {} => project_managers = m

\* C40: remove_chat_socket never raises: called for a chat that has no
\* entry in chat_sockets (the connection was rejected by add_chat_socket
\* before it was registered) it returns normally, and so no endpoint is
\* left by an exception of its finally block.
C40_RemoveNeverRaises ==
  \A c \in Conns : connPc[c] # "raised"


\* A step of the cleanup task that found the registered manager inactive
\* and called its kill().
SweepStep ==
  /\ project_managers # NoManager
  /\ PmInactive(project_managers)
  /\ \/ project_managers' = NoManager
     \/ sweepFailed' # sweepFailed

\* C39: kill() is robust to a close or a terminate that raises: whenever
\* the sweep calls kill() on an inactive manager, the manager ends torn
\* down (its socket and sandbox maps are empty) and its entry is removed
\* from project_managers.
C39_KillAlwaysTearsDown ==
  [][SweepStep =>
       /\ project_managers' = NoManager
       /\ pmSockets'[project_managers] = {}
       /\ pmSandboxes'[project_managers] = {}]_vars


\* C33: a service's status is BUILDING only until the first readiness
\* check of its sandbox: once a check has returned not-up and the wait
\* continues, the status is BUILDING_WAITING.
C33_WaitingAfterFirstCheck ==
  \A s \in ServiceTypes :
    (sup[s] = "run" /\ failures = 0 /\ notUp[s] > 0)
      => sandbox_statuses[s] = "BUILDING_WAITING"


C32_AgentsBoundToCurrentHandle ==
  [][\A c \in Chats :
       (sessPc[c] = "idle" /\ sessPc'[c] = "turn")
         => \A s \in ServiceTypes : agSb'[c][s] = sbGen'[s]]_vars

====
